---- MODULE Spec2Model ----
(***************************************************************************)
(* Model of the professor topic aggregator (analyze_professor_topics.py).  *)
(*                                                                         *)
(* JSON values are modelled with one shape per position so that values can *)
(* be compared: a string-valued key is a record [tag, s] whose tag says    *)
(* whether the key is absent, null or a string, and whose s is the string  *)
(* as a sequence of characters; a number-valued key is a record [tag, n];  *)
(* a mapping is a record with a tag and one field per key the code reads.  *)
(* Keys the code only copies (title, doi, publication_date, score,         *)
(* department, total_papers, parent_name, child_name) are left out.        *)
(***************************************************************************)
EXTENDS Integers, Sequences, FiniteSets, TLC

\* ------------------------------------------------------------------ bounds

MaxPapers == 2
MaxRels == 2
MaxFiles == 2

\* ------------------------------------------------------------- JSON values

Absent == [tag |-> "absent", s |-> <<>>]
Null == [tag |-> "null", s |-> <<>>]
Str(s) == [tag |-> "str", s |-> s]

NoCount == [tag |-> "absent", n |-> 0]
NullCount == [tag |-> "null", n |-> 0]
Count(n) == [tag |-> "int", n |-> n]

\* Python truthiness of a string-valued key: None and "" are falsy.
Truthy(v) == v.tag = "str" /\ v.s # <<>>

\* dict.get(key): an absent key reads as None.
Get(v) == IF v.tag = "absent" THEN Null ELSE v

\* A domain / field / subfield sub-object of a primary_topic.
SubAbsent == [tag |-> "absent", id |-> Absent, display_name |-> Absent]
SubNull == [tag |-> "null", id |-> Absent, display_name |-> Absent]
Sub(id, name) == [tag |-> "map", id |-> id, display_name |-> name]

GetSub(v) == IF v.tag = "absent" THEN SubNull ELSE v

\* "x and isinstance(x, dict)" for a sub-object: a non-empty mapping.
SubTruthyDict(v) == v.tag = "map" /\ ~(v.id.tag = "absent" /\ v.display_name.tag = "absent")

PTOther(tag) ==
    [tag |-> tag, id |-> Absent, display_name |-> Absent,
     subfield |-> SubAbsent, field |-> SubAbsent, domain |-> SubAbsent]
PTAbsent == PTOther("absent")
PTNull == PTOther("null")
PTNonMap == PTOther("nonmap")
PTEmpty == PTOther("map")
PT(id, name, subfield, field, domain) ==
    [tag |-> "map", id |-> id, display_name |-> name,
     subfield |-> subfield, field |-> field, domain |-> domain]

\* "not primary_topic" for a mapping: the mapping has no key.
PTIsEmpty(pt) ==
    /\ pt.id.tag = "absent" /\ pt.display_name.tag = "absent"
    /\ pt.subfield.tag = "absent" /\ pt.field.tag = "absent" /\ pt.domain.tag = "absent"

PaperNone == [tag |-> "null", id |-> Absent, cited_by_count |-> NoCount, primary_topic |-> PTAbsent]
Paper(id, cited, pt) == [tag |-> "map", id |-> id, cited_by_count |-> cited, primary_topic |-> pt]

ProfInfoOther(tag) == [tag |-> tag, name |-> Absent, author_id |-> Absent]
ProfInfo(name, author_id) == [tag |-> "map", name |-> name, author_id |-> author_id]

PapersOther(tag) == [tag |-> tag, items |-> <<>>]
PapersList(items) == [tag |-> "list", items |-> items]

\* The content of a professor file: unreadable, not JSON, JSON that is not
\* an object, or an object.
FileOther(tag) == [tag |-> tag, professor_info |-> ProfInfoOther("absent"), papers |-> PapersOther("absent")]
FileObject(prof, papers) == [tag |-> "map", professor_info |-> prof, papers |-> papers]

\* The relationships_file argument: not supplied (None), a path that does
\* not exist, a path that cannot be read, a file that is not JSON, a JSON
\* value that is not a list, or a JSON list of relationship mappings.
RelOther(tag) == [tag |-> tag, rels |-> <<>>]
RelList(rels) == [tag |-> "list", rels |-> rels]
Rel(parent, child, type) == [parent_id |-> parent, child_id |-> child, relationship_type |-> type]


\* --------------------------------------------------- analyze_professor_topics

\* An insertion-ordered dict is a sequence of entries, each with its key.
DictIndex(d, key) == CHOOSE k \in 1..Len(d) : d[k].topic_id = key
DictHas(d, key) == \E k \in 1..Len(d) : d[k].topic_id = key

\* Line 51: the paper is skipped unless it is a mapping.
SkipPaper(paper) == paper.tag # "map"

\* Line 56: the primary_topic is skipped when None, not a mapping, or empty.
SkipTopic(pt) == pt.tag # "map" \/ PTIsEmpty(pt)

\* Line 62: both the topic id and the topic name must be truthy.
TopicAccepted(pt) == Truthy(pt.id) /\ Truthy(pt.display_name)

\* Variant of CitedOrDefault: paper.get('cited_by_count', 1).
CitedOrDefaultOne(cited) == IF cited.tag = "absent" THEN Count(1) ELSE cited

\* Lines 64-71: paper.get('id') and paper.get('cited_by_count', 0).
CitedOrDefault(cited) == IF cited.tag = "absent" THEN Count(0) ELSE cited
PaperInfo(paper) == [id |-> Get(paper.id), cited_by_count |-> CitedOrDefault(paper.cited_by_count)]

\* Variant of AppendToBucket: the summary is put in front of the bucket.
AppendToBucketFront(topic_papers, topic_id, info) ==
    IF DictHas(topic_papers, topic_id)
    THEN LET k == DictIndex(topic_papers, topic_id)
         IN [topic_papers EXCEPT ![k].papers = <<info>> \o @]
    ELSE Append(topic_papers, [topic_id |-> topic_id, papers |-> <<info>>])

\* Lines 73-74: topic_papers[topic_id].append(paper_info); topic_stats[topic_id] += 1.
AppendToBucket(topic_papers, topic_id, info) ==
    IF DictHas(topic_papers, topic_id)
    THEN LET k == DictIndex(topic_papers, topic_id)
         IN [topic_papers EXCEPT ![k].papers = Append(@, info)]
    ELSE Append(topic_papers, [topic_id |-> topic_id, papers |-> <<info>>])

Increment(topic_stats, topic_id) ==
    IF DictHas(topic_stats, topic_id)
    THEN LET k == DictIndex(topic_stats, topic_id)
         IN [topic_stats EXCEPT ![k].count = @ + 1]
    ELSE Append(topic_stats, [topic_id |-> topic_id, count |-> 1])

\* Lines 79-98: a sub-object is recorded as the tuple (id, name) when it is
\* a non-empty mapping whose id and name are both truthy.
AddLevel(set, sub) ==
    IF SubTruthyDict(sub) /\ Truthy(sub.id) /\ Truthy(sub.display_name)
    THEN set \cup {[id |-> sub.id.s, name |-> sub.display_name.s]}
    ELSE set

EmptyAcc ==
    [topic_papers |-> <<>>, topic_stats |-> <<>>,
     fields |-> {}, subfields |-> {}, topics |-> {}, domains |-> {}]

\* Lines 49-98: one iteration of the loop over the papers.
Visit(acc, paper) ==
    IF SkipPaper(paper) THEN acc
    ELSE LET pt == paper.primary_topic IN
         IF SkipTopic(pt) THEN acc
         ELSE IF ~TopicAccepted(pt) THEN acc
         ELSE [topic_papers |-> AppendToBucket(acc.topic_papers, pt.id.s, PaperInfo(paper)),
               topic_stats |-> Increment(acc.topic_stats, pt.id.s),
               topics |-> acc.topics \cup {[id |-> pt.id.s, name |-> pt.display_name.s]},
               subfields |-> AddLevel(acc.subfields, pt.subfield),
               fields |-> AddLevel(acc.fields, pt.field),
               domains |-> AddLevel(acc.domains, pt.domain)]

RECURSIVE CollectFrom(_, _, _)
CollectFrom(items, k, acc) ==
    IF k > Len(items) THEN acc ELSE CollectFrom(items, k + 1, Visit(acc, items[k]))

Collect(items) == CollectFrom(items, 1, EmptyAcc)

\* Variant of DetailMatches: the display_name must be truthy as well.
DetailMatchesNamed(paper, topic_id) ==
    /\ paper.tag = "map"
    /\ paper.primary_topic.tag = "map" /\ ~PTIsEmpty(paper.primary_topic)
    /\ paper.primary_topic.id = Str(topic_id)
    /\ Truthy(paper.primary_topic.display_name)

\* Lines 116-119: the re-scan's test of a paper against a topic id.
DetailMatches(paper, topic_id) ==
    /\ paper.tag = "map"
    /\ paper.primary_topic.tag = "map" /\ ~PTIsEmpty(paper.primary_topic)
    /\ paper.primary_topic.id = Str(topic_id)

\* Lines 113-121: the primary_topic of the first matching paper, or None.
TopicDetail(items, topic_id) ==
    IF \E k \in 1..Len(items) : DetailMatches(items[k], topic_id)
    THEN LET k == CHOOSE i \in 1..Len(items) :
                     /\ DetailMatches(items[i], topic_id)
                     /\ \A j \in 1..(i - 1) : ~DetailMatches(items[j], topic_id)
         IN [found |-> TRUE, pt |-> items[k].primary_topic]
    ELSE [found |-> FALSE, pt |-> PTNull]

RECURSIVE SumCited(_, _)
SumCited(paper_list, k) ==
    IF k > Len(paper_list) THEN 0 ELSE paper_list[k].cited_by_count.n + SumCited(paper_list, k + 1)

\* Line 134: sum(...) / len(paper_list) if paper_list else 0, kept as the
\* exact quotient num/den; sum() raises TypeError on a None count.
AvgRaises(paper_list) == \E k \in 1..Len(paper_list) : paper_list[k].cited_by_count.tag = "null"
AvgCitations(paper_list) ==
    IF paper_list # <<>>
    THEN [num |-> SumCited(paper_list, 1), den |-> Len(paper_list)]
    ELSE [num |-> 0, den |-> 1]

\* Lines 124-135: one entry of topics_with_papers.
TopicEntry(bucket, detail) ==
    [topic_id |-> bucket.topic_id,
     topic_info |-> [id |-> bucket.topic_id,
                     display_name |-> Get(detail.display_name),
                     subfield |-> GetSub(detail.subfield),
                     field |-> GetSub(detail.field),
                     domain |-> GetSub(detail.domain)],
     paper_count |-> Len(bucket.papers),
     papers |-> bucket.papers,
     avg_citations |-> AvgCitations(bucket.papers)]

\* Lines 111-135: entries in the order of topic_papers, one per topic whose
\* re-scan found a detail.
RECURSIVE TopicsWithPapers(_, _, _)
TopicsWithPapers(items, topic_papers, k) ==
    IF k > Len(topic_papers) THEN <<>>
    ELSE LET d == TopicDetail(items, topic_papers[k].topic_id)
             rest == TopicsWithPapers(items, topic_papers, k + 1)
         IN IF d.found THEN <<TopicEntry(topic_papers[k], d.pt)>> \o rest ELSE rest

\* Line 134 raises when an entry is built from a bucket holding a None count.
ReportRaises(items, topic_papers) ==
    \E k \in 1..Len(topic_papers) :
        /\ TopicDetail(items, topic_papers[k].topic_id).found
        /\ AvgRaises(topic_papers[k].papers)

\* Lines 160-165 (and 182-187, 204-209): the full re-scan's test of a paper
\* against an entity id at one level.
LevelOf(pt, level) ==
    IF level = "domain" THEN pt.domain ELSE IF level = "field" THEN pt.field ELSE pt.subfield

LevelMatches(paper, level, id) ==
    /\ paper.tag = "map"
    /\ paper.primary_topic.tag = "map" /\ ~PTIsEmpty(paper.primary_topic)
    /\ SubTruthyDict(LevelOf(paper.primary_topic, level))
    /\ LevelOf(paper.primary_topic, level).id = Str(id)

RescanCount(items, level, id) ==
    Cardinality({k \in 1..Len(items) : LevelMatches(items[k], level, id)})

\* f"professor_{prof_info.get('author_id', '')}": str() of the value.
NoneChars == <<"N", "o", "n", "e">>
ProfessorPrefix == <<"p", "r", "o", "f", "e", "s", "s", "o", "r", "_">>
FormatOr(v, default) ==
    IF v.tag = "absent" THEN default ELSE IF v.tag = "null" THEN NoneChars ELSE v.s

\* Lines 142-153: the professor entity.
ProfEntity(prof_info, topic_papers) ==
    [id |-> ProfessorPrefix \o FormatOr(prof_info.author_id, <<>>),
     type |-> "professor",
     name |-> Get(prof_info.name),
     paper_count |-> 0,
     papers |-> <<>>,
     total_topics |-> Len(topic_papers)]

\* Lines 156-219: one domain, field or subfield entity per (id, name) tuple.
LevelEntity(items, level, pair) ==
    [id |-> pair.id,
     type |-> level,
     name |-> Str(pair.name),
     paper_count |-> RescanCount(items, level, pair.id),
     papers |-> <<>>,
     total_topics |-> 0]

PaperIds(paper_list) == [k \in 1..Len(paper_list) |-> paper_list[k].id]

\* topic_stats.get(topic_id, 0) and topic_papers.get(topic_id, []).
StatsGet(topic_stats, topic_id) ==
    IF DictHas(topic_stats, topic_id) THEN topic_stats[DictIndex(topic_stats, topic_id)].count ELSE 0
BucketGet(topic_papers, topic_id) ==
    IF DictHas(topic_papers, topic_id) THEN topic_papers[DictIndex(topic_papers, topic_id)].papers ELSE <<>>

\* Lines 222-232: one topic entity per (id, name) tuple.
TopicEntity(acc, pair) ==
    [id |-> pair.id,
     type |-> "topic",
     name |-> Str(pair.name),
     paper_count |-> StatsGet(acc.topic_stats, pair.id),
     papers |-> PaperIds(BucketGet(acc.topic_papers, pair.id)),
     total_topics |-> 0]

\* Lines 138-232: the entity list. ord gives, for each of the four sets of
\* tuples, the order in which this run's iteration over the set yields them.
Entities(items, prof_info, acc, ord) ==
    <<ProfEntity(prof_info, acc.topic_papers)>>
    \o [k \in 1..Len(ord.domains) |-> LevelEntity(items, "domain", ord.domains[k])]
    \o [k \in 1..Len(ord.fields) |-> LevelEntity(items, "field", ord.fields[k])]
    \o [k \in 1..Len(ord.subfields) |-> LevelEntity(items, "subfield", ord.subfields[k])]
    \o [k \in 1..Len(ord.topics) |-> TopicEntity(acc, ord.topics[k])]

RelType(s) == [tag |-> "str", s |-> s]
RelTypeAbsent == [tag |-> "absent", s |-> ""]

\* Variant of WorksOn: the first key of topic_papers gets no edge.
WorksOnButFirst(prof_id, acc) ==
    [k \in 1..(Len(acc.topic_papers) - 1) |->
        [source |-> prof_id,
         target |-> acc.topic_papers[k + 1].topic_id,
         type |-> RelType("works_on"),
         paper_count |-> StatsGet(acc.topic_stats, acc.topic_papers[k + 1].topic_id),
         papers |-> PaperIds(acc.topic_papers[k + 1].papers)]]

\* Lines 236-245: one works_on edge per key of topic_papers, in key order.
WorksOn(prof_id, acc) ==
    [k \in 1..Len(acc.topic_papers) |->
        [source |-> prof_id,
         target |-> acc.topic_papers[k].topic_id,
         type |-> RelType("works_on"),
         paper_count |-> StatsGet(acc.topic_stats, acc.topic_papers[k].topic_id),
         papers |-> PaperIds(acc.topic_papers[k].papers)]]

\* Variant of load_cs_relationships: the except branch returns None.
load_cs_relationships_none(relFile) ==
    IF relFile.tag \in {"list", "nonlist"} THEN relFile ELSE RelOther("nonlist")

\* Lines 14-22: the parsed JSON value, or [] on any error.
load_cs_relationships(relFile) ==
    IF relFile.tag \in {"list", "nonlist"} THEN relFile ELSE RelList(<<>>)

\* Line 248: "relationships_file and os.path.exists(relationships_file)".
RelFileUsed(relFile) == relFile.tag \notin {"none", "missing"}

\* Variant of RelRelevant: "or" in place of "and".
RelRelevantEither(rel, ids) ==
    \/ rel.parent_id.tag = "str" /\ rel.parent_id.s \in ids
    \/ rel.child_id.tag = "str" /\ rel.child_id.s \in ids

\* Line 258: both endpoints are ids of entities built so far.
RelRelevant(rel, ids) ==
    /\ rel.parent_id.tag = "str" /\ rel.parent_id.s \in ids
    /\ rel.child_id.tag = "str" /\ rel.child_id.s \in ids

\* Lines 259-267: the edge appended for a relevant relationship.
HierarchyEdge(rel) ==
    [source |-> rel.parent_id.s,
     target |-> rel.child_id.s,
     type |-> IF rel.relationship_type.tag = "absent" THEN RelType("hierarchical")
              ELSE rel.relationship_type,
     paper_count |-> 0,
     papers |-> <<>>]

RECURSIVE SelectEdges(_, _, _)
SelectEdges(rels, ids, k) ==
    IF k > Len(rels) THEN <<>>
    ELSE (IF RelRelevant(rels[k], ids) THEN <<HierarchyEdge(rels[k])>> ELSE <<>>)
         \o SelectEdges(rels, ids, k + 1)

\* Lines 248-267: the hierarchy edges appended after the works_on edges.
HierarchyEdges(relFile, entities) ==
    IF RelFileUsed(relFile)
    THEN SelectEdges(load_cs_relationships(relFile).rels,
                     {entities[k].id : k \in 1..Len(entities)}, 1)
    ELSE <<>>

\* "for rel in cs_relationships" raises TypeError when the loaded value is
\* not iterable.
HierarchyRaises(relFile) ==
    RelFileUsed(relFile) /\ load_cs_relationships(relFile).tag # "list"

EmptyResult(status) ==
    [status |-> status,
     professor_info |-> ProfInfoOther("absent"),
     topic_analysis |-> [total_topics |-> 0, total_papers_analyzed |-> 0, topics_with_papers |-> <<>>],
     taxonomy |-> [entities |-> <<>>, relations |-> <<>>]]

\* Variant of GetPapers: data['papers'], which has no default.
GetPapersSubscript(data) == data.papers

\* Lines 36-37: data.get('professor_info', {}) and data.get('papers', []).
GetProfInfo(data) ==
    IF data.professor_info.tag = "absent" THEN ProfInfo(Absent, Absent) ELSE data.professor_info

GetPapers(data) ==
    IF data.papers.tag = "absent" THEN PapersList(<<>>) ELSE data.papers

\* Variant of TotalPapersAnalyzed: only the papers the loop did not skip.
TotalPapersNotSkipped(items) == Len(SelectSeq(items, LAMBDA p : ~SkipPaper(p)))

\* Line 105: len(papers).
TotalPapersAnalyzed(items) == Len(items)

\* Lines 24-275. status is "none" for the returned None, "raised" when an
\* exception leaves the function, "ok" when the result structure is returned.
analyze_professor_topics(data, relFile, ord) ==
    IF data.tag \in {"unreadable", "badjson"} THEN EmptyResult("none")
    ELSE IF data.tag # "map" THEN EmptyResult("raised")
    ELSE LET prof_info == GetProfInfo(data)
             papers == GetPapers(data)
         IN IF papers.tag # "list" THEN EmptyResult("raised")
            ELSE LET acc == Collect(papers.items) IN
                 IF ReportRaises(papers.items, acc.topic_papers) THEN EmptyResult("raised")
                 ELSE IF prof_info.tag # "map" THEN EmptyResult("raised")
                 ELSE IF HierarchyRaises(relFile) THEN EmptyResult("raised")
                 ELSE LET entities == Entities(papers.items, prof_info, acc, ord) IN
                      [status |-> "ok",
                       professor_info |-> prof_info,
                       topic_analysis |->
                           [total_topics |-> Len(acc.topic_papers),
                            total_papers_analyzed |-> TotalPapersAnalyzed(papers.items),
                            topics_with_papers |-> TopicsWithPapers(papers.items, acc.topic_papers, 1)],
                       taxonomy |->
                           [entities |-> entities,
                            relations |-> WorksOn(entities[1].id, acc)
                                          \o HierarchyEdges(relFile, entities)]]

\* The iteration order of a Python set of tuples of strings follows the
\* strings' hashes, which are salted per process: any order can come out.
Orderings(set) ==
    {f \in [1..Cardinality(set) -> set] : \A i, j \in 1..Cardinality(set) : i # j => f[i] # f[j]}

EmptyOrd == [domains |-> <<>>, fields |-> <<>>, subfields |-> <<>>, topics |-> <<>>]

HashOrders(data) ==
    IF data.tag = "map" /\ GetPapers(data).tag = "list"
    THEN LET acc == Collect(GetPapers(data).items)
         IN [domains : Orderings(acc.domains), fields : Orderings(acc.fields),
             subfields : Orderings(acc.subfields), topics : Orderings(acc.topics)]
    ELSE {EmptyOrd}

\* ------------------------------------------------------------------ inputs

D1 == <<"D", "1">>
D2 == <<"D", "2">>
F1 == <<"F", "1">>
S1 == <<"S", "1">>
T1 == <<"T", "1">>
T2 == <<"T", "2">>
X9 == <<"X", "9">>
A1 == <<"A", "1">>

\* A classified paper with the whole hierarchy and 7 citations.
P1 == Paper(Str(<<"W", "1">>), Count(7),
            PT(Str(T1), Str(<<"a">>), Sub(Str(S1), Str(<<"s">>)),
               Sub(Str(F1), Str(<<"f">>)), Sub(Str(D1), Str(<<"d">>))))
\* The same topic, no cited_by_count key, field F1 under another name,
\* another domain.
P2 == Paper(Str(<<"W", "2">>), NoCount,
            PT(Str(T1), Str(<<"a">>), SubAbsent,
               Sub(Str(F1), Str(<<"g">>)), Sub(Str(D2), Str(<<"e">>))))
\* Another topic, one citation.
P3 == Paper(Str(<<"W", "3">>), Count(1),
            PT(Str(T2), Str(<<"b">>), SubNull, SubAbsent, Sub(Str(D1), Str(<<"d">>))))
\* A primary_topic with an id, a null display_name and a domain.
P4 == Paper(Absent, NullCount,
            PT(Str(T1), Null, SubAbsent, SubAbsent, Sub(Str(D1), Str(<<"d">>))))
\* A classified paper with "cited_by_count": null.
P5 == Paper(Str(<<"W", "5">>), NullCount,
            PT(Str(T2), Str(<<"b">>), SubAbsent, SubAbsent, SubAbsent))
\* primary_topic null, {}, not a mapping, missing; and a paper that is None.
P6 == Paper(Str(<<"W", "6">>), Count(3), PTNull)
P7 == Paper(Str(<<"W", "7">>), Count(3), PTEmpty)
P8 == Paper(Str(<<"W", "8">>), NoCount, PTNonMap)
P9 == Paper(Str(<<"W", "9">>), Count(3), PTAbsent)
P10 == PaperNone

PaperUniverse == {P1, P2, P3, P4, P5, P6, P7, P8, P9, P10}
PaperLists == UNION {[1..n -> PaperUniverse] : n \in 0..MaxPapers}

Prof0 == ProfInfo(Str(<<"A", " ", "B">>), Str(A1))

DataUniverse ==
    {FileOther("unreadable"), FileOther("badjson"), FileOther("nonobject"),
     FileObject(Prof0, PapersOther("null")),
     FileObject(Prof0, PapersOther("absent")),
     FileObject(ProfInfoOther("absent"), PapersList(<<>>)),
     FileObject(ProfInfoOther("null"), PapersList(<<P1>>))}
    \cup {FileObject(Prof0, PapersList(items)) : items \in PaperLists}

R1 == Rel(Str(D1), Str(F1), RelType("domain_to_field"))
R2 == Rel(Str(S1), Str(T1), RelTypeAbsent)
R3 == Rel(Str(X9), Str(T1), RelType("subfield_to_topic"))
\* A record between two ids of the output whose type is works_on.
R4 == Rel(Str(S1), Str(T1), RelType("works_on"))

RelUniverse == {R1, R2, R3}
RelLists == UNION {[1..n -> RelUniverse] : n \in 0..MaxRels}

RelFiles ==
    {RelOther("none"), RelOther("missing"), RelOther("unreadable"),
     RelOther("badjson"), RelOther("nonlist")}
    \cup {RelList(rels) : rels \in RelLists}
    \cup {RelList(<<R4>>)}

\* Professor files of a batch: not JSON, a JSON list, two records of the
\* same professor, a record whose name is null, a record without
\* professor_info, a record whose name and id hold path separators, and a
\* file that cannot be read.
B1 == FileOther("badjson")
B2 == FileOther("nonobject")
B3 == FileObject(Prof0, PapersList(<<P1>>))
B4 == FileObject(Prof0, PapersList(<<>>))
B5 == FileObject(ProfInfo(Null, Str(A1)), PapersList(<<>>))
B6 == FileObject(ProfInfoOther("absent"), PapersOther("absent"))
B7 == FileObject(ProfInfo(Str(<<"A", "/", "B", "\\", "C">>), Str(<<"A", "/", "1">>)), PapersList(<<P3>>))
B8 == FileOther("unreadable")

\* A directory entry: whether its name ends with _detail.json, and its content.
Entry(detail, content) == [detail |-> detail, content |-> content]

EntryUniverse ==
    {Entry(TRUE, c) : c \in {B1, B2, B3, B4, B5, B6, B7, B8}} \cup {Entry(FALSE, B3)}
Listings == UNION {[1..n -> EntryUniverse] : n \in 0..MaxFiles}

Folder(exists, entries) == [exists |-> exists, entries |-> entries]
Folders == {Folder(FALSE, <<>>)} \cup {Folder(TRUE, l) : l \in Listings}

BatchRelFiles == {RelOther("none"), RelOther("nonlist"), RelList(<<R2>>)}

\* ------------------------------------------------------------------- state

VARIABLES
    data,            \* the content of the professor file
    relFile,         \* the relationships_file argument and what it holds
    seed,            \* the set iteration orders of the first run
    result,          \* what the first run returned
    result2,         \* what a second run, in another process, returned
    pc,              \* "start", "analyzed", "rerun"
    folder,          \* process_folder: the input folder
    professor_files, \* process_folder: the files found, in listing order
    pos,             \* process_folder: the index of the next file
    successful,      \* process_folder: counter
    failed,          \* process_folder: counter
    outFiles,        \* the names of the files in the output folder
    output_file,     \* process_folder: the file name derived last
    bpc,             \* "start", "loop", "done", "returned"
    table,           \* data/field.txt: its lines, in file order
    target_node,     \* extract_hierarchy: the requested node name
    target_level,    \* extract_hierarchy: "none", "domain", "field", "subfield"
    line_num,        \* extract_hierarchy: the next line of the second pass
    entities,        \* extract_hierarchy: the entity list
    relationships,   \* extract_hierarchy: the relationship list
    seen_entities,   \* extract_hierarchy: the ids of the entities added
    written,         \* the names of the files main has written
    epc,             \* "start", "second", "returned", "saved", "exit"
    max_retries,     \* fetchers: the max_retries argument
    max_papers,      \* fetch_papers_for_topic: the max_papers argument
    all_papers,      \* fetchers: the papers so far, each named by the page it came with
    page,            \* fetch_papers_for_professor: the page requested next
    attempt,         \* fetchers: the attempt of the retry loop
    cursor,          \* fetch_papers_for_topic: whether a next_cursor is held
    iterations,      \* fetch_papers_for_topic: passes through the while loop begun
    requests_log,    \* fetchers: the requests issued and how each was answered
    fpc,             \* fetchers: "idle", "request", "returned", "raised"
    max_workers,     \* download.py: the size of the thread pool
    single_professor,\* download.py: whether --single-professor was given
    oa_papers,       \* download.py: the paper infos extracted from the JSON files
    tasks,           \* download.py: the paper infos submitted to the pool
    worker,          \* download.py: per task, its position and its local values
    tmp_files,       \* download directory: the content of <id>.pdf.tmp, per id
    final_files,     \* download directory: the content of <id>.pdf, per id
    stats,           \* download.py: the counters downloaded, failed, skipped
    dpc              \* download.py: "start", "running", "done"

analysisVars == <<data, seed, result, result2, pc>>
batchVars == <<folder, professor_files, pos, successful, failed, outFiles, output_file, bpc>>
extractVars == <<table, target_node, target_level, line_num, entities, relationships,
                 seen_entities, written, epc>>
fetchVars == <<max_retries, max_papers, all_papers, page, attempt, cursor, iterations,
               requests_log, fpc>>
downloadVars == <<max_workers, single_professor, oa_papers, tasks, worker, tmp_files,
                  final_files, stats, dpc>>
clientVars == <<fetchVars, downloadVars>>
vars == <<data, relFile, seed, result, result2, pc,
          folder, professor_files, pos, successful, failed, outFiles, output_file, bpc,
          table, target_node, target_level, line_num, entities, relationships,
          seen_entities, written, epc,
          max_retries, max_papers, all_papers, page, attempt, cursor, iterations,
          requests_log, fpc,
          max_workers, single_professor, oa_papers, tasks, worker, tmp_files,
          final_files, stats, dpc>>

AnalysisIdle ==
    /\ data = FileOther("unreadable")
    /\ seed = EmptyOrd
    /\ result = EmptyResult("none")
    /\ result2 = EmptyResult("none")
    /\ pc = "start"

BatchIdle ==
    /\ folder = Folder(FALSE, <<>>)
    /\ professor_files = <<>>
    /\ pos = 1
    /\ successful = 0
    /\ failed = 0
    /\ outFiles = {}
    /\ output_file = <<>>
    /\ bpc = "start"

ExtractIdle ==
    /\ table = <<>>
    /\ target_node = <<>>
    /\ target_level = "none"
    /\ line_num = 1
    /\ entities = <<>>
    /\ relationships = <<>>
    /\ seen_entities = {}
    /\ written = {}
    /\ epc = "start"

FetchIdle ==
    /\ max_retries = 0
    /\ max_papers = 0
    /\ all_papers = <<>>
    /\ page = 1
    /\ attempt = 0
    /\ cursor = FALSE
    /\ iterations = 0
    /\ requests_log = <<>>
    /\ fpc = "idle"

DownloadIdle ==
    /\ max_workers = 1
    /\ single_professor = FALSE
    /\ oa_papers = <<>>
    /\ tasks = <<>>
    /\ worker = <<>>
    /\ tmp_files = <<>>
    /\ final_files = <<>>
    /\ stats = [downloaded |-> 0, failed |-> 0, skipped |-> 0]
    /\ dpc = "start"

ClientIdle == FetchIdle /\ DownloadIdle

\* ------------------------------------------- one call of the aggregator

Init ==
    /\ data \in DataUniverse
    /\ relFile \in RelFiles
    /\ seed = EmptyOrd
    /\ result = EmptyResult("none")
    /\ result2 = EmptyResult("none")
    /\ pc = "start"
    /\ BatchIdle
    /\ ExtractIdle
    /\ ClientIdle

\* One call of analyze_professor_topics(professor_file, relationships_file).
Analyze ==
    /\ pc = "start"
    /\ \E ord \in HashOrders(data) :
          /\ seed' = ord
          /\ result' = analyze_professor_topics(data, relFile, ord)
    /\ pc' = "analyzed"
    /\ UNCHANGED <<data, relFile, result2>>
    /\ UNCHANGED batchVars /\ UNCHANGED extractVars /\ UNCHANGED clientVars

\* The same call on the same files in a separate run of the program.
Rerun ==
    /\ pc = "analyzed"
    /\ \E ord \in HashOrders(data) :
          result2' = analyze_professor_topics(data, relFile, ord)
    /\ pc' = "rerun"
    /\ UNCHANGED <<data, relFile, seed, result>>
    /\ UNCHANGED batchVars /\ UNCHANGED extractVars /\ UNCHANGED clientVars

Next == Analyze \/ Rerun

Spec == Init /\ [][Next]_vars

\* ------------------------------------------------------- process_folder

UnknownChars == <<"u", "n", "k", "n", "o", "w", "n">>
FilePrefix == <<"t", "o", "p", "i", "c", "s", "_", "a", "n", "a", "l", "y", "s", "i", "s", "_">>
FileSuffix == <<".", "j", "s", "o", "n">>

\* Line 326: replace(' ', '_').replace('/', '_').replace('\\', '_').
SafeName(name) == [k \in 1..Len(name) |-> IF name[k] \in {" ", "/", "\\"} THEN "_" ELSE name[k]]

\* Line 324: .get('name', 'unknown'); the name None has no replace().
NameRaises(prof_info) == prof_info.name.tag = "null"
ProfName(prof_info) == IF prof_info.name.tag = "absent" THEN UnknownChars ELSE prof_info.name.s

\* Lines 324-327: the name of the output file inside output_folder.
OutputFile(prof_info) ==
    FilePrefix \o SafeName(ProfName(prof_info)) \o <<"_">>
    \o FormatOr(prof_info.author_id, UnknownChars) \o FileSuffix

\* Lines 277-284: the file is written; an error of open() is printed and
\* swallowed. A name holding "/" names a directory that does not exist.
save_results(files, name) ==
    IF \E k \in 1..Len(name) : name[k] = "/" THEN files ELSE files \cup {name}

RECURSIVE DetailFiles(_, _)
DetailFiles(entries, k) ==
    IF k > Len(entries) THEN <<>>
    ELSE (IF entries[k].detail THEN <<entries[k].content>> ELSE <<>>) \o DetailFiles(entries, k + 1)

InitBatch ==
    /\ AnalysisIdle
    /\ ExtractIdle
    /\ ClientIdle
    /\ relFile \in BatchRelFiles
    /\ folder \in Folders
    /\ professor_files = <<>>
    /\ pos = 1
    /\ successful = 0
    /\ failed = 0
    /\ outFiles = {}
    /\ output_file = <<>>
    /\ bpc = "start"

\* Lines 288-309: the folder is listed; a missing folder or one without a
\* *_detail.json file ends the call.
ListFolder ==
    /\ bpc = "start"
    /\ IF ~folder.exists
       THEN bpc' = "returned" /\ UNCHANGED professor_files
       ELSE /\ professor_files' = DetailFiles(folder.entries, 1)
            /\ bpc' = IF professor_files' = <<>> THEN "returned" ELSE "loop"
    /\ UNCHANGED <<folder, pos, successful, failed, outFiles, output_file>>
    /\ UNCHANGED <<relFile>> /\ UNCHANGED analysisVars /\ UNCHANGED extractVars /\ UNCHANGED clientVars

\* Variant of ProcessFile: the "result is None" branch does not count.
ProcessFileNoneUncounted ==
    /\ bpc = "loop" /\ pos <= Len(professor_files)
    /\ \E ord \in HashOrders(professor_files[pos]) :
          LET res == analyze_professor_topics(professor_files[pos], relFile, ord) IN
          IF res.status = "none"
          THEN UNCHANGED <<successful, failed, outFiles, output_file>>
          ELSE IF res.status = "raised" \/ NameRaises(res.professor_info)
          THEN failed' = failed + 1 /\ UNCHANGED <<successful, outFiles, output_file>>
          ELSE /\ output_file' = OutputFile(res.professor_info)
               /\ outFiles' = save_results(outFiles, output_file')
               /\ successful' = successful + 1
               /\ UNCHANGED failed
    /\ pos' = pos + 1
    /\ UNCHANGED <<folder, professor_files, bpc>>
    /\ UNCHANGED <<relFile>> /\ UNCHANGED analysisVars /\ UNCHANGED extractVars /\ UNCHANGED clientVars

\* Lines 311-343: one iteration of the loop over professor_files. A None
\* result counts as failed; an exception raised by the analysis or by
\* name.replace() is caught at line 338 and counts as failed.
ProcessFile ==
    /\ bpc = "loop" /\ pos <= Len(professor_files)
    /\ \E ord \in HashOrders(professor_files[pos]) :
          LET res == analyze_professor_topics(professor_files[pos], relFile, ord) IN
          IF res.status = "none" \/ res.status = "raised" \/ NameRaises(res.professor_info)
          THEN failed' = failed + 1 /\ UNCHANGED <<successful, outFiles, output_file>>
          ELSE /\ output_file' = OutputFile(res.professor_info)
               /\ outFiles' = save_results(outFiles, output_file')
               /\ successful' = successful + 1
               /\ UNCHANGED failed
    /\ pos' = pos + 1
    /\ UNCHANGED <<folder, professor_files, bpc>>
    /\ UNCHANGED <<relFile>> /\ UNCHANGED analysisVars /\ UNCHANGED extractVars /\ UNCHANGED clientVars

\* Lines 345-348: the summary is printed.
Finish ==
    /\ bpc = "loop" /\ pos > Len(professor_files)
    /\ bpc' = "done"
    /\ UNCHANGED <<folder, professor_files, pos, successful, failed, outFiles, output_file>>
    /\ UNCHANGED <<relFile>> /\ UNCHANGED analysisVars /\ UNCHANGED extractVars /\ UNCHANGED clientVars

NextBatch == ListFolder \/ ProcessFile \/ Finish

SpecBatch == InitBatch /\ [][NextBatch]_vars

\* ------------------------------------------------- extract_cs_hierarchy.py

MaxRows == 3

\* A line of data/field.txt is the sequence of the fields its tabs separate;
\* a field is a sequence of characters. No field of the lines below starts
\* or ends with a blank.

\* Line 39: line.strip() removes the white space at both ends of the line,
\* the tabs next to an empty first or last field included.
RECURSIVE lstrip(_)
lstrip(fields) ==
    IF Len(fields) > 1 /\ fields[1] = <<>> THEN lstrip(Tail(fields)) ELSE fields

RECURSIVE rstrip(_)
rstrip(fields) ==
    IF Len(fields) > 1 /\ fields[Len(fields)] = <<>>
    THEN rstrip(SubSeq(fields, 1, Len(fields) - 1))
    ELSE fields

\* Lines 39, 72: row = line.strip().split('\t').
SplitLine(line) == rstrip(lstrip(line))

\* Lines 40, 73: rows of fewer than 11 fields are skipped.
FullRow(row) == ~(Len(row) < 11)

\* row[k], counted from 0 as in the source.
Col(row, k) == row[k + 1]

\* Variant of MatchLevel: the field name is compared before the domain name.
MatchLevelFieldFirst(row, target) ==
    IF Col(row, 5) = target THEN "field"
    ELSE IF Col(row, 7) = target THEN "domain"
    ELSE IF Col(row, 3) = target THEN "subfield"
    ELSE "none"

\* Lines 47-58: the level at which one row matches the target.
MatchLevel(row, target) ==
    IF Col(row, 7) = target THEN "domain"
    ELSE IF Col(row, 5) = target THEN "field"
    ELSE IF Col(row, 3) = target THEN "subfield"
    ELSE "none"

\* Lines 36-60: the first pass stops at the first full row that matches.
RECURSIVE FirstPass(_, _, _)
FirstPass(lines, k, target) ==
    IF k > Len(lines) THEN "none"
    ELSE LET row == SplitLine(lines[k]) IN
         IF FullRow(row) /\ MatchLevel(row, target) # "none"
         THEN MatchLevel(row, target)
         ELSE FirstPass(lines, k + 1, target)

\* Variant of ShouldProcess: the level is not looked at.
ShouldProcessAnyLevel(level, row, target) ==
    Col(row, 7) = target \/ Col(row, 5) = target \/ Col(row, 3) = target

\* Lines 90-96: should_process.
ShouldProcess(level, row, target) ==
    \/ level = "domain" /\ Col(row, 7) = target
    \/ level = "field" /\ Col(row, 5) = target
    \/ level = "subfield" /\ Col(row, 3) = target

\* Lines 104-107: the synthesized ids.
OpenAlexOrg ==
    <<"h", "t", "t", "p", "s", ":", "/", "/", "o", "p", "e", "n", "a", "l", "e", "x",
      ".", "o", "r", "g", "/">>
domain_openalex_id(row) ==
    OpenAlexOrg \o <<"d", "o", "m", "a", "i", "n", "s", "/">> \o Col(row, 6)
field_openalex_id(row) ==
    OpenAlexOrg \o <<"f", "i", "e", "l", "d", "s", "/">> \o Col(row, 4)
subfield_openalex_id(row) ==
    OpenAlexOrg \o <<"s", "u", "b", "f", "i", "e", "l", "d", "s", "/">> \o Col(row, 2)
topic_openalex_id(row) == OpenAlexOrg \o <<"T">> \o Col(row, 0)

\* Lines 113-118, 124-129, 144-149, 163-171: the entity records.
domain_entity(row) ==
    [id |-> domain_openalex_id(row), name |-> Col(row, 7),
     original_id |-> Col(row, 6), type |-> "domain"]
field_entity(row) ==
    [id |-> field_openalex_id(row), name |-> Col(row, 5),
     original_id |-> Col(row, 4), type |-> "field"]
subfield_entity(row) ==
    [id |-> subfield_openalex_id(row), name |-> Col(row, 3),
     original_id |-> Col(row, 2), type |-> "subfield"]
topic_entity(row) ==
    [id |-> topic_openalex_id(row), name |-> Col(row, 1),
     original_id |-> Col(row, 0), type |-> "topic",
     keywords |-> Col(row, 8), summary |-> Col(row, 9), link |-> Col(row, 10)]

\* Lines 134-140, 154-160, 174-180: the relationship records.
domain_to_field(row) ==
    [parent_id |-> domain_openalex_id(row), parent_name |-> Col(row, 7),
     child_id |-> field_openalex_id(row), child_name |-> Col(row, 5),
     relationship_type |-> "domain_to_field"]
field_to_subfield(row) ==
    [parent_id |-> field_openalex_id(row), parent_name |-> Col(row, 5),
     child_id |-> subfield_openalex_id(row), child_name |-> Col(row, 3),
     relationship_type |-> "field_to_subfield"]
subfield_to_topic(row) ==
    [parent_id |-> subfield_openalex_id(row), parent_name |-> Col(row, 3),
     child_id |-> topic_openalex_id(row), child_name |-> Col(row, 1),
     relationship_type |-> "subfield_to_topic"]

\* Variant of AppendEntity: the record is put in front.
PrependEntity(es, e) == <<e>> \o es

\* entities.append(...).
AppendEntity(es, e) == Append(es, e)

\* Variant of AppendRel: a record already in the list is not added again.
AppendRelOnce(rs, r) == IF \E k \in 1..Len(rs) : rs[k] = r THEN rs ELSE Append(rs, r)

\* relationships.append(...).
AppendRel(rs, r) == Append(rs, r)

\* Variant of Seen: no id is ever found in seen_entities.
SeenNever(seen, id) == FALSE

\* Lines 112, 123, 143: id in seen_entities.
Seen(seen, id) == id \in seen

\* Variant of EmitsDomain: a field target as well.
EmitsDomainOrField(level) == level \in {"domain", "field"}

\* Line 110: the domain entity is added for a domain target only.
EmitsDomain(level) == level = "domain"

\* Variant of EmitsField: every level.
EmitsFieldAlways(level) == TRUE

\* Lines 122, 153: target_level in ['domain', 'field'].
EmitsField(level) == level \in {"domain", "field"}

\* Lines 110-119.
AddDomain(st, level, row) ==
    IF EmitsDomain(level) /\ ~Seen(st.seen, domain_openalex_id(row))
    THEN [st EXCEPT !.entities = AppendEntity(@, domain_entity(row)),
                    !.seen = @ \cup {domain_openalex_id(row)}]
    ELSE st

\* Lines 122-140: the domain -> field record is appended only together with
\* the field entity.
AddField(st, level, row) ==
    IF EmitsField(level) /\ ~Seen(st.seen, field_openalex_id(row))
    THEN [st EXCEPT !.entities = AppendEntity(@, field_entity(row)),
                    !.seen = @ \cup {field_openalex_id(row)},
                    !.relationships = IF EmitsDomain(level)
                                      THEN AppendRel(@, domain_to_field(row))
                                      ELSE @]
    ELSE st

\* Lines 143-160: the field -> subfield record is appended only together
\* with the subfield entity.
AddSubfield(st, level, row) ==
    IF ~Seen(st.seen, subfield_openalex_id(row))
    THEN [st EXCEPT !.entities = AppendEntity(@, subfield_entity(row)),
                    !.seen = @ \cup {subfield_openalex_id(row)},
                    !.relationships = IF EmitsField(level)
                                      THEN AppendRel(@, field_to_subfield(row))
                                      ELSE @]
    ELSE st

\* Lines 163-180: the topic entity and its edge, for every processed row.
AddTopic(st, row) ==
    [st EXCEPT !.entities = AppendEntity(@, topic_entity(row)),
               !.relationships = AppendRel(@, subfield_to_topic(row))]

\* Lines 101-180: the body of the second loop for a processed row.
ProcessRow(st, level, row) ==
    AddTopic(AddSubfield(AddField(AddDomain(st, level, row), level, row), level, row), row)

\* Line 195: str.lower() on the letters A-Z.
UpperCase ==
    <<"A", "B", "C", "D", "E", "F", "G", "H", "I", "J", "K", "L", "M",
      "N", "O", "P", "Q", "R", "S", "T", "U", "V", "W", "X", "Y", "Z">>
LowerCase ==
    <<"a", "b", "c", "d", "e", "f", "g", "h", "i", "j", "k", "l", "m",
      "n", "o", "p", "q", "r", "s", "t", "u", "v", "w", "x", "y", "z">>
lower(c) ==
    IF \E i \in 1..Len(UpperCase) : UpperCase[i] = c
    THEN LowerCase[CHOOSE i \in 1..Len(UpperCase) : UpperCase[i] = c]
    ELSE c

\* Line 195: lower(), then ' ' -> '_', '&' -> 'and', and ',', '(', ')'
\* removed; no replacement produces a character a later one touches.
RECURSIVE clean_name(_)
clean_name(name) ==
    IF name = <<>> THEN <<>>
    ELSE LET c == lower(Head(name))
             rest == clean_name(Tail(name)) IN
         IF c = " " THEN <<"_">> \o rest
         ELSE IF c = "&" THEN <<"a", "n", "d">> \o rest
         ELSE IF c \in {",", "(", ")"} THEN rest
         ELSE <<c>> \o rest

DataFolder == <<"d", "a", "t", "a", "/">>
EntitiesSuffix ==
    <<"_", "e", "n", "t", "i", "t", "i", "e", "s", ".", "j", "s", "o", "n">>
RelationshipsSuffix ==
    <<"_", "r", "e", "l", "a", "t", "i", "o", "n", "s", "h", "i", "p", "s",
      ".", "j", "s", "o", "n">>

\* Lines 188-208: the two files save_to_files writes.
save_to_files(node_name) ==
    {DataFolder \o clean_name(node_name) \o EntitiesSuffix,
     DataFolder \o clean_name(node_name) \o RelationshipsSuffix}

\* Variant of NoData: the lists are never taken as empty.
NoDataNever(es) == FALSE

\* Line 260: not entities.
NoData(es) == es = <<>>

\* --------------------------------------------- inputs of the extraction

CS == <<"C", " ", "S">>
AI == <<"f", "1">>

Line(topic_id, topic_name, subfield_id, subfield_name, field_id, field_name, domain_id, domain_name) ==
    <<topic_id, topic_name, subfield_id, subfield_name, field_id, field_name,
      domain_id, domain_name, <<"k">>, <<"s">>, <<"l">>>>

\* A row of domain CS.
Line1 == Line(<<"1">>, <<"t", "1">>, <<"1">>, <<"s", "1">>, <<"1">>, <<"f", "1">>, <<"1">>, CS)
\* The subfield of Line1 under another field.
Line2 == Line(<<"2">>, <<"t", "2">>, <<"1">>, <<"s", "1">>, <<"2">>, <<"f", "2">>, <<"1">>, CS)
\* A subfield named CS, in the field of Line1 but another domain.
Line3 == Line(<<"3">>, <<"t", "3">>, <<"2">>, CS, <<"1">>, <<"f", "1">>, <<"2">>, <<"d", "2">>)
\* A field named CS.
Line4 == Line(<<"4">>, <<"t", "4">>, <<"3">>, <<"s", "3">>, <<"3">>, CS, <<"2">>, <<"d", "2">>)
\* A topic named CS.
Line5 == Line(<<"5">>, CS, <<"4">>, <<"s", "4">>, <<"4">>, <<"f", "4">>, <<"3">>, <<"d", "3">>)
\* Line1 cut after the domain name.
Line6 == SubSeq(Line1, 1, 8)
\* Line1 with an empty link.
Line7 == [Line1 EXCEPT ![11] = <<>>]
\* The field and subfield ids of Line1 under other names and another domain id.
Line8 == Line(<<"6">>, <<"t", "6">>, <<"1">>, <<"s", "x">>, <<"1">>, <<"f", "x">>, <<"9">>, CS)
\* CS at all three levels.
Line9 == Line(<<"7">>, <<"t", "7">>, <<"5">>, CS, <<"5">>, CS, <<"1">>, CS)

LineUniverse == {Line1, Line2, Line3, Line4, Line5, Line6, Line7, Line8, Line9}
Tables == UNION {[1..n -> LineUniverse] : n \in 0..MaxRows}
Targets == {CS, AI}

\* ------------------------------------------------ one run of the script

InitExtract ==
    /\ AnalysisIdle
    /\ BatchIdle
    /\ ClientIdle
    /\ relFile = RelOther("none")
    /\ table \in Tables
    /\ target_node \in Targets
    /\ target_level = "none"
    /\ line_num = 1
    /\ entities = <<>>
    /\ relationships = <<>>
    /\ seen_entities = {}
    /\ written = {}
    /\ epc = "start"

\* Lines 36-66: the first pass; a target no full row matches makes
\* extract_hierarchy return [], [] at once.
DetermineLevel ==
    /\ epc = "start"
    /\ target_level' = FirstPass(table, 1, target_node)
    /\ epc' = IF target_level' = "none" THEN "returned" ELSE "second"
    /\ UNCHANGED <<table, target_node, line_num, entities, relationships,
                   seen_entities, written>>
    /\ UNCHANGED <<relFile>> /\ UNCHANGED analysisVars /\ UNCHANGED batchVars /\ UNCHANGED clientVars

\* Lines 70-184: one iteration of the second pass.
SecondPassLine ==
    /\ epc = "second" /\ line_num <= Len(table)
    /\ LET row == SplitLine(table[line_num])
           st == [entities |-> entities, relationships |-> relationships,
                  seen |-> seen_entities]
           new == IF FullRow(row) /\ ShouldProcess(target_level, row, target_node)
                  THEN ProcessRow(st, target_level, row)
                  ELSE st IN
       /\ entities' = new.entities
       /\ relationships' = new.relationships
       /\ seen_entities' = new.seen
    /\ line_num' = line_num + 1
    /\ UNCHANGED <<table, target_node, target_level, written, epc>>
    /\ UNCHANGED <<relFile>> /\ UNCHANGED analysisVars /\ UNCHANGED batchVars /\ UNCHANGED clientVars

\* Line 186: return entities, relationships.
ReturnLists ==
    /\ epc = "second" /\ line_num > Len(table)
    /\ epc' = "returned"
    /\ UNCHANGED <<table, target_node, target_level, line_num, entities,
                   relationships, seen_entities, written>>
    /\ UNCHANGED <<relFile>> /\ UNCHANGED analysisVars /\ UNCHANGED batchVars /\ UNCHANGED clientVars

\* Lines 260-262: main reports that nothing was found and exits with 1.
ExitNotFound ==
    /\ epc = "returned" /\ NoData(entities)
    /\ epc' = "exit"
    /\ UNCHANGED <<table, target_node, target_level, line_num, entities,
                   relationships, seen_entities, written>>
    /\ UNCHANGED <<relFile>> /\ UNCHANGED analysisVars /\ UNCHANGED batchVars /\ UNCHANGED clientVars

\* Lines 264-273: main writes the two files.
SaveFiles ==
    /\ epc = "returned" /\ ~NoData(entities)
    /\ written' = written \cup save_to_files(target_node)
    /\ epc' = "saved"
    /\ UNCHANGED <<table, target_node, target_level, line_num, entities,
                   relationships, seen_entities>>
    /\ UNCHANGED <<relFile>> /\ UNCHANGED analysisVars /\ UNCHANGED batchVars /\ UNCHANGED clientVars

NextExtract == DetermineLevel \/ SecondPassLine \/ ReturnLists \/ ExitNotFound \/ SaveFiles

SpecExtract == InitExtract /\ [][NextExtract]_vars

\* --------------------------------------------------- fetch_domain_papers.py

MaxRetries == 2
MaxPages == 2

\* What one requests.get can be answered with: a RequestException (no
\* connection, timeout, HTTP error status), a body with `results` papers and
\* meta.count, or a body that is not a JSON object.
PageAnswer(results, count) == [results |-> results, count |-> count]
PageAnswers == {PageAnswer(n, c) : n \in 0..2, c \in {0, 2, 9}}
Logged(p, kind) == [page |-> p, kind |-> kind]

\* Lines 69-74: a RequestException on the last attempt ends the call with the
\* papers so far; on an earlier attempt the loop sleeps and tries again.
AfterFailure ==
    IF attempt = max_retries - 1
    THEN fpc' = "returned" /\ UNCHANGED attempt
    ELSE attempt' = attempt + 1 /\ UNCHANGED fpc

InitFetch ==
    /\ AnalysisIdle /\ BatchIdle /\ ExtractIdle /\ DownloadIdle
    /\ relFile = RelOther("none")
    /\ max_retries \in 0..MaxRetries
    /\ max_papers = 0
    /\ all_papers = <<>>
    /\ page = 1
    /\ attempt = 0
    /\ cursor = FALSE
    /\ iterations = 0
    /\ requests_log = <<>>
    /\ fpc = "request"

\* Lines 60-74: an attempt that raises a RequestException.
RequestFails ==
    /\ fpc = "request" /\ attempt < max_retries
    /\ requests_log' = Append(requests_log, Logged(page, "fail"))
    /\ AfterFailure
    /\ UNCHANGED <<max_retries, max_papers, all_papers, page, cursor, iterations>>
    /\ UNCHANGED <<relFile>> /\ UNCHANGED analysisVars /\ UNCHANGED batchVars
    /\ UNCHANGED extractVars /\ UNCHANGED downloadVars

\* Lines 63-66, 77: a body that is not a JSON object. response.json() raises
\* a RequestException in the requests releases that derive JSONDecodeError
\* from it and a plain ValueError in the others, which leaves the function;
\* JSON that is not an object makes data.get raise at line 77.
RequestGarbled ==
    /\ fpc = "request" /\ attempt < max_retries
    /\ requests_log' = Append(requests_log, Logged(page, "garbled"))
    /\ \E caught \in BOOLEAN :
          IF caught THEN AfterFailure ELSE fpc' = "raised" /\ UNCHANGED attempt
    /\ UNCHANGED <<max_retries, max_papers, all_papers, page, cursor, iterations>>
    /\ UNCHANGED <<relFile>> /\ UNCHANGED analysisVars /\ UNCHANGED batchVars
    /\ UNCHANGED extractVars /\ UNCHANGED downloadVars

\* Lines 60-67, 77-95: an attempt that succeeds, and the rest of the pass
\* through the while loop. The server ends the listing at page MaxPages.
RequestSucceeds ==
    /\ fpc = "request" /\ attempt < max_retries
    /\ \E a \in PageAnswers :
          /\ page < MaxPages \/ a.results = 0 \/ Len(all_papers) + a.results >= a.count
          /\ requests_log' = Append(requests_log, Logged(page, "page"))
          /\ IF a.results = 0
             THEN fpc' = "returned" /\ UNCHANGED <<all_papers, page, attempt>>
             ELSE /\ all_papers' = all_papers \o [i \in 1..a.results |-> page]
                  /\ IF Len(all_papers') >= a.count
                     THEN fpc' = "returned" /\ UNCHANGED <<page, attempt>>
                     ELSE page' = page + 1 /\ attempt' = 0 /\ UNCHANGED fpc
    /\ UNCHANGED <<max_retries, max_papers, cursor, iterations>>
    /\ UNCHANGED <<relFile>> /\ UNCHANGED analysisVars /\ UNCHANGED batchVars
    /\ UNCHANGED extractVars /\ UNCHANGED downloadVars

\* Lines 60, 77: with max_retries <= 0 the for loop has no pass, no request
\* is made and `data` is read unbound on the first page.
NoAttempt ==
    /\ fpc = "request" /\ ~(attempt < max_retries)
    /\ fpc' = "raised"
    /\ UNCHANGED <<max_retries, max_papers, all_papers, page, attempt, cursor, iterations,
                   requests_log>>
    /\ UNCHANGED <<relFile>> /\ UNCHANGED analysisVars /\ UNCHANGED batchVars
    /\ UNCHANGED extractVars /\ UNCHANGED downloadVars

NextFetch == RequestFails \/ RequestGarbled \/ RequestSucceeds \/ NoAttempt

SpecFetch == InitFetch /\ [][NextFetch]_vars

\* ---------------------------------------------------- fetch_topic_papers.py

MaxTopicPapers == 3

\* A page of the cursor listing: `results` papers and whether meta carries a
\* next_cursor.
TopicAnswer(results, next_cursor) == [results |-> results, next_cursor |-> next_cursor]
TopicAnswers == {TopicAnswer(n, c) : n \in 0..2, c \in BOOLEAN}
Min(a, b) == IF a < b THEN a ELSE b

\* Lines 77-82: the last failed attempt returns the papers so far, an earlier
\* one sleeps and tries again.
AfterTopicFailure ==
    IF attempt = max_retries - 1
    THEN fpc' = "returned" /\ UNCHANGED attempt
    ELSE attempt' = attempt + 1 /\ UNCHANGED fpc

\* Lines 49-51: the call fetch_papers_for_topic(topic_id, max_retries, max_papers).
InitTopic ==
    /\ AnalysisIdle /\ BatchIdle /\ ExtractIdle /\ DownloadIdle
    /\ relFile = RelOther("none")
    /\ max_retries \in 0..MaxRetries
    /\ max_papers \in 0..MaxTopicPapers
    /\ all_papers = <<>>
    /\ page = 1
    /\ attempt = 0
    /\ cursor = FALSE
    /\ iterations = 0
    /\ requests_log = <<>>
    /\ fpc = "loop"

\* Lines 53, 110: the test of the while loop; a pass starts the retry loop.
TopicLoopTest ==
    /\ fpc = "loop"
    /\ IF Len(all_papers) < max_papers
       THEN fpc' = "request" /\ attempt' = 0 /\ iterations' = iterations + 1
       ELSE fpc' = "returned" /\ UNCHANGED <<attempt, iterations>>
    /\ UNCHANGED <<max_retries, max_papers, all_papers, page, cursor, requests_log>>
    /\ UNCHANGED <<relFile>> /\ UNCHANGED analysisVars /\ UNCHANGED batchVars
    /\ UNCHANGED extractVars /\ UNCHANGED downloadVars

\* Lines 68-82: an attempt that raises a RequestException.
TopicRequestFails ==
    /\ fpc = "request" /\ attempt < max_retries
    /\ requests_log' = Append(requests_log, Logged(iterations, "fail"))
    /\ AfterTopicFailure
    /\ UNCHANGED <<max_retries, max_papers, all_papers, page, cursor, iterations>>
    /\ UNCHANGED <<relFile>> /\ UNCHANGED analysisVars /\ UNCHANGED batchVars
    /\ UNCHANGED extractVars /\ UNCHANGED downloadVars

\* Lines 71-77, 85: a body that is not a JSON object: caught as a
\* RequestException or leaving the function, as the requests release has it.
TopicRequestGarbled ==
    /\ fpc = "request" /\ attempt < max_retries
    /\ requests_log' = Append(requests_log, Logged(iterations, "garbled"))
    /\ \E caught \in BOOLEAN :
          IF caught THEN AfterTopicFailure ELSE fpc' = "raised" /\ UNCHANGED attempt
    /\ UNCHANGED <<max_retries, max_papers, all_papers, page, cursor, iterations>>
    /\ UNCHANGED <<relFile>> /\ UNCHANGED analysisVars /\ UNCHANGED batchVars
    /\ UNCHANGED extractVars /\ UNCHANGED downloadVars

\* Lines 68-75, 85-105: an attempt that succeeds, and the rest of the pass:
\* at most `remaining` papers of the page are kept.
TopicRequestSucceeds ==
    /\ fpc = "request" /\ attempt < max_retries
    /\ \E a \in TopicAnswers :
          /\ requests_log' = Append(requests_log, Logged(iterations, "page"))
          /\ IF a.results = 0
             THEN fpc' = "returned" /\ UNCHANGED <<all_papers, cursor>>
             ELSE /\ all_papers' = all_papers \o
                        [i \in 1..Min(a.results, max_papers - Len(all_papers)) |-> iterations]
                  /\ IF ~a.next_cursor \/ Len(all_papers') >= max_papers
                     THEN fpc' = "returned" /\ UNCHANGED cursor
                     ELSE cursor' = TRUE /\ fpc' = "loop"
    /\ UNCHANGED <<max_retries, max_papers, page, attempt, iterations>>
    /\ UNCHANGED <<relFile>> /\ UNCHANGED analysisVars /\ UNCHANGED batchVars
    /\ UNCHANGED extractVars /\ UNCHANGED downloadVars

\* Lines 68, 85: with max_retries <= 0 the for loop has no pass and `data`
\* is read unbound.
TopicNoAttempt ==
    /\ fpc = "request" /\ ~(attempt < max_retries)
    /\ fpc' = "raised"
    /\ UNCHANGED <<max_retries, max_papers, all_papers, page, attempt, cursor, iterations,
                   requests_log>>
    /\ UNCHANGED <<relFile>> /\ UNCHANGED analysisVars /\ UNCHANGED batchVars
    /\ UNCHANGED extractVars /\ UNCHANGED downloadVars

NextTopic ==
    \/ TopicLoopTest
    \/ TopicRequestFails
    \/ TopicRequestGarbled
    \/ TopicRequestSucceeds
    \/ TopicNoAttempt

SpecTopic == InitTopic /\ [][NextTopic]_vars

\* The function is one sequential thread: while a step is possible, it is
\* taken.
SpecTopicFair == SpecTopic /\ WF_vars(NextTopic)

\* ------------------------------------------------------------- download.py

MaxTasks == 2
MaxWorkers == 2
WorkIds == {"W1", "W2"}

\* What a file holds as far as verify_file_integrity can tell: nothing there,
\* at least 1 KB starting with %PDF, or anything else (an HTML page).
FileStates == {"none", "pdf", "html"}
\* Lines 279-342.
verify_file_integrity(file) == file = "pdf"

\* Lines 465-472: the first paper of every openalex_id, in order.
RECURSIVE unique_papers(_)
unique_papers(papers) ==
    IF papers = <<>> THEN <<>>
    ELSE LET rest == unique_papers(SubSeq(papers, 1, Len(papers) - 1))
             last == papers[Len(papers)]
         IN  IF \E i \in 1..Len(rest) : rest[i] = last THEN rest ELSE Append(rest, last)

QueuedTask == [pc |-> "queued", content |-> "none", verified |-> "none", counter |-> "none", reg |-> 0]
Running(t) == worker[t].pc \notin {"queued", "done"}

\* Lines 94-111 and 124-153: a fresh downloader, the open-access papers read
\* from the professor files (each with its openalex_id), the files already
\* in the download directory.
InitDownload ==
    /\ AnalysisIdle /\ BatchIdle /\ ExtractIdle /\ FetchIdle
    /\ relFile = RelOther("none")
    /\ max_workers \in 1..MaxWorkers
    /\ single_professor \in BOOLEAN
    /\ oa_papers \in UNION {[1..n -> WorkIds] : n \in 1..MaxTasks}
    /\ tasks = <<>>
    /\ worker = <<>>
    /\ tmp_files = [w \in WorkIds |-> "none"]
    /\ final_files \in [WorkIds -> FileStates]
    /\ stats = [downloaded |-> 0, failed |-> 0, skipped |-> 0]
    /\ dpc = "start"

\* Lines 465-481 (process_all_files) and 596-604 (main, --single-professor):
\* the papers are submitted to the pool, after removing duplicate ids only
\* when all files are processed.
Submit ==
    /\ dpc = "start"
    /\ tasks' = IF single_professor THEN oa_papers ELSE unique_papers(oa_papers)
    /\ worker' = [t \in 1..Len(tasks') |-> QueuedTask]
    /\ dpc' = "running"
    /\ UNCHANGED <<max_workers, single_professor, oa_papers, tmp_files, final_files, stats>>
    /\ UNCHANGED <<relFile>> /\ UNCHANGED analysisVars /\ UNCHANGED batchVars
    /\ UNCHANGED extractVars /\ UNCHANGED fetchVars

\* ThreadPoolExecutor: a thread of the pool that is free takes the oldest
\* queued task.
StartTask(t) ==
    /\ dpc = "running" /\ worker[t].pc = "queued"
    /\ \A u \in 1..(t - 1) : worker[u].pc # "queued"
    /\ Cardinality({u \in 1..Len(tasks) : Running(u)}) < max_workers
    /\ worker' = [worker EXCEPT ![t].pc = "check"]
    /\ UNCHANGED <<max_workers, single_professor, oa_papers, tasks, tmp_files, final_files,
                   stats, dpc>>
    /\ UNCHANGED <<relFile>> /\ UNCHANGED analysisVars /\ UNCHANGED batchVars
    /\ UNCHANGED extractVars /\ UNCHANGED fetchVars

\* Lines 377-384: a valid file at the final path is kept and the paper
\* counted as skipped, an invalid one is removed.
CheckExisting(t) ==
    /\ dpc = "running" /\ worker[t].pc = "check"
    /\ LET id == tasks[t] IN
          IF final_files[id] # "none" /\ verify_file_integrity(final_files[id])
          THEN /\ worker' = [worker EXCEPT ![t].pc = "read", ![t].counter = "skipped"]
               /\ UNCHANGED final_files
          ELSE /\ worker' = [worker EXCEPT ![t].pc = "fetch"]
               /\ final_files' = [final_files EXCEPT ![id] = "none"]
    /\ UNCHANGED <<max_workers, single_professor, oa_papers, tasks, tmp_files, stats, dpc>>
    /\ UNCHANGED <<relFile>> /\ UNCHANGED analysisVars /\ UNCHANGED batchVars
    /\ UNCHANGED extractVars /\ UNCHANGED fetchVars

\* Lines 390-397: download_file gives no response (counted as failed) or a
\* response with some body.
Fetch(t) ==
    /\ dpc = "running" /\ worker[t].pc = "fetch"
    /\ \E body \in FileStates :
          IF body = "none"
          THEN worker' = [worker EXCEPT ![t].pc = "read", ![t].counter = "failed"]
          ELSE worker' = [worker EXCEPT ![t].pc = "write", ![t].content = body]
    /\ UNCHANGED <<max_workers, single_professor, oa_papers, tasks, tmp_files, final_files,
                   stats, dpc>>
    /\ UNCHANGED <<relFile>> /\ UNCHANGED analysisVars /\ UNCHANGED batchVars
    /\ UNCHANGED extractVars /\ UNCHANGED fetchVars

\* Lines 405-412: the body is written to <openalex_id>.pdf.tmp.
WriteTmp(t) ==
    /\ dpc = "running" /\ worker[t].pc = "write"
    /\ tmp_files' = [tmp_files EXCEPT ![tasks[t]] = worker[t].content]
    /\ worker' = [worker EXCEPT ![t].pc = "verify"]
    /\ UNCHANGED <<max_workers, single_professor, oa_papers, tasks, final_files, stats, dpc>>
    /\ UNCHANGED <<relFile>> /\ UNCHANGED analysisVars /\ UNCHANGED batchVars
    /\ UNCHANGED extractVars /\ UNCHANGED fetchVars

\* Line 415: the temp file, as it is now, is verified.
Verify(t) ==
    /\ dpc = "running" /\ worker[t].pc = "verify"
    /\ IF verify_file_integrity(tmp_files[tasks[t]])
       THEN worker' = [worker EXCEPT ![t].pc = "rename", ![t].verified = "valid"]
       ELSE worker' = [worker EXCEPT ![t].pc = "unlink", ![t].verified = "invalid"]
    /\ UNCHANGED <<max_workers, single_professor, oa_papers, tasks, tmp_files, final_files,
                   stats, dpc>>
    /\ UNCHANGED <<relFile>> /\ UNCHANGED analysisVars /\ UNCHANGED batchVars
    /\ UNCHANGED extractVars /\ UNCHANGED fetchVars

\* Lines 418-420, 433-437: the temp file, as it is now, is moved to the
\* final path; rename raises when the temp file is gone, which the except
\* clause counts as failed.
Rename(t) ==
    /\ dpc = "running" /\ worker[t].pc = "rename"
    /\ LET id == tasks[t] IN
          IF tmp_files[id] = "none"
          THEN /\ worker' = [worker EXCEPT ![t].pc = "read", ![t].counter = "failed"]
               /\ UNCHANGED <<tmp_files, final_files>>
          ELSE /\ worker' = [worker EXCEPT ![t].pc = "read", ![t].counter = "downloaded"]
               /\ final_files' = [final_files EXCEPT ![id] = tmp_files[id]]
               /\ tmp_files' = [tmp_files EXCEPT ![id] = "none"]
    /\ UNCHANGED <<max_workers, single_professor, oa_papers, tasks, stats, dpc>>
    /\ UNCHANGED <<relFile>> /\ UNCHANGED analysisVars /\ UNCHANGED batchVars
    /\ UNCHANGED extractVars /\ UNCHANGED fetchVars

\* Lines 427-429: the temp file is removed if it is there.
Unlink(t) ==
    /\ dpc = "running" /\ worker[t].pc = "unlink"
    /\ tmp_files' = [tmp_files EXCEPT ![tasks[t]] = "none"]
    /\ worker' = [worker EXCEPT ![t].pc = "read", ![t].counter = "failed"]
    /\ UNCHANGED <<max_workers, single_professor, oa_papers, tasks, final_files, stats, dpc>>
    /\ UNCHANGED <<relFile>> /\ UNCHANGED analysisVars /\ UNCHANGED batchVars
    /\ UNCHANGED extractVars /\ UNCHANGED fetchVars

\* self.stats[counter] += 1 (lines 381, 394, 420, 429, 437) is a read of the
\* dict entry, an addition and a store, with no lock held: first the read.
CountRead(t) ==
    /\ dpc = "running" /\ worker[t].pc = "read"
    /\ worker' = [worker EXCEPT ![t].pc = "store", ![t].reg = stats[worker[t].counter]]
    /\ UNCHANGED <<max_workers, single_professor, oa_papers, tasks, tmp_files, final_files,
                   stats, dpc>>
    /\ UNCHANGED <<relFile>> /\ UNCHANGED analysisVars /\ UNCHANGED batchVars
    /\ UNCHANGED extractVars /\ UNCHANGED fetchVars

\* Then the store of the value read plus one; download_paper returns.
CountStore(t) ==
    /\ dpc = "running" /\ worker[t].pc = "store"
    /\ stats' = [stats EXCEPT ![worker[t].counter] = worker[t].reg + 1]
    /\ worker' = [worker EXCEPT ![t].pc = "done"]
    /\ UNCHANGED <<max_workers, single_professor, oa_papers, tasks, tmp_files, final_files,
                   dpc>>
    /\ UNCHANGED <<relFile>> /\ UNCHANGED analysisVars /\ UNCHANGED batchVars
    /\ UNCHANGED extractVars /\ UNCHANGED fetchVars

\* Lines 484-493, 606-614: every future has completed, the pool is left.
PoolLeft ==
    /\ dpc = "running"
    /\ \A t \in 1..Len(tasks) : worker[t].pc = "done"
    /\ dpc' = "done"
    /\ UNCHANGED <<max_workers, single_professor, oa_papers, tasks, worker, tmp_files,
                   final_files, stats>>
    /\ UNCHANGED <<relFile>> /\ UNCHANGED analysisVars /\ UNCHANGED batchVars
    /\ UNCHANGED extractVars /\ UNCHANGED fetchVars

NextDownload ==
    \/ Submit
    \/ \E t \in 1..Len(tasks) : StartTask(t)
    \/ \E t \in 1..Len(tasks) : CheckExisting(t)
    \/ \E t \in 1..Len(tasks) : Fetch(t)
    \/ \E t \in 1..Len(tasks) : WriteTmp(t)
    \/ \E t \in 1..Len(tasks) : Verify(t)
    \/ \E t \in 1..Len(tasks) : Rename(t)
    \/ \E t \in 1..Len(tasks) : Unlink(t)
    \/ \E t \in 1..Len(tasks) : CountRead(t)
    \/ \E t \in 1..Len(tasks) : CountStore(t)
    \/ PoolLeft

SpecDownload == InitDownload /\ [][NextDownload]_vars

\* ---------------------------------------------------------------- properties

Done == pc # "start"
Items == GetPapers(data).items
TopicAnalysis == result.topic_analysis
OutEntities == result.taxonomy.entities
OutRelations == result.taxonomy.relations

\* The papers a reader of the contract calls unclassified: no primary_topic,
\* or one that is null, not a mapping, or the empty mapping.
Unclassified(paper) ==
    \/ paper.tag # "map"
    \/ paper.primary_topic.tag \in {"absent", "null", "nonmap"}
    \/ paper.primary_topic = PTEmpty

\* The papers the contract says enter a bucket: a mapping whose primary_topic
\* is a non-empty mapping with a truthy id and a truthy display_name.
Classified(paper) ==
    /\ ~Unclassified(paper)
    /\ paper.primary_topic.id.tag = "str" /\ paper.primary_topic.id.s # <<>>
    /\ paper.primary_topic.display_name.tag = "str" /\ paper.primary_topic.display_name.s # <<>>

\* C1: every professor file that parses as JSON yields the complete result
\* structure and no exception; None is returned only for a file that cannot
\* be read or parsed.
C1_AlwaysCompleteResult ==
    Done => IF data.tag \in {"unreadable", "badjson"}
            THEN result.status = "none"
            ELSE result.status = "ok"

\* C2: a record whose papers list is empty or absent gives total_topics = 0,
\* total_papers_analyzed = 0 and an empty topics_with_papers, and the call
\* returns a result whenever professor_info and the relationship file are
\* usable.
C2_ZeroPapers ==
    (Done /\ data.tag = "map" /\ (data.papers.tag = "absent" \/ data.papers = PapersList(<<>>)))
    => /\ result.status \in {"ok", "raised"}
       /\ (data.professor_info.tag # "null" /\ relFile.tag # "nonlist") => result.status = "ok"
       /\ result.status = "ok" =>
             /\ TopicAnalysis.total_topics = 0
             /\ TopicAnalysis.total_papers_analyzed = 0
             /\ TopicAnalysis.topics_with_papers = <<>>

C2_Witness ==
    /\ pc = "analyzed" /\ data.tag = "map" /\ data.papers.tag = "absent"
    /\ result.status = "ok" /\ TopicAnalysis.total_papers_analyzed = 0
    /\ Len(OutEntities) = 1

\* C3: unclassified papers count in total_papers_analyzed, which is the
\* length of the papers list, and change nothing else: the result is the
\* one obtained from the list without them, up to total_papers_analyzed.
C3_UnclassifiedOnlyCounted ==
    (Done /\ data.tag = "map" /\ GetPapers(data).tag = "list")
    => LET kept == SelectSeq(Items, LAMBDA p : ~Unclassified(p))
           without == analyze_professor_topics(
                          FileObject(data.professor_info, PapersList(kept)), relFile, seed)
       IN /\ result.status = without.status
          /\ result.status = "ok" =>
                /\ TopicAnalysis.total_papers_analyzed = Len(Items)
                /\ TopicAnalysis.total_topics = without.topic_analysis.total_topics
                /\ TopicAnalysis.topics_with_papers = without.topic_analysis.topics_with_papers
                /\ result.taxonomy = without.taxonomy

C3_Witness ==
    /\ pc = "analyzed" /\ result.status = "ok"
    /\ Len(Items) = 2
    /\ Unclassified(Items[1]) /\ Classified(Items[2])
    /\ TopicAnalysis.total_papers_analyzed = 2
    /\ TopicAnalysis.total_topics = 1
    /\ Len(OutRelations) = 1

\* The bucket-based count of an entity: the classified papers whose
\* primary_topic (for a topic) or primary_topic.<level> sub-object has its id.
BucketCount(items, type, id) ==
    Cardinality({k \in 1..Len(items) :
        /\ Classified(items[k])
        /\ IF type = "topic" THEN items[k].primary_topic.id.s = id
           ELSE /\ LevelOf(items[k].primary_topic, type).tag = "map"
                /\ LevelOf(items[k].primary_topic, type).id = Str(id)})

WellFormedPapers ==
    \A k \in 1..Len(Items) :
        Items[k].tag = "map" /\ Items[k].primary_topic.tag \in {"null", "absent", "map"}

\* C4: for every domain, field, subfield and topic entity, paper_count (the
\* full re-scan count) equals the bucket-based count, whenever every paper
\* is a mapping and every primary_topic is null, absent or a mapping.
C4_CountsAgree ==
    (Done /\ result.status = "ok" /\ WellFormedPapers)
    => \A k \in 2..Len(OutEntities) :
           OutEntities[k].paper_count = BucketCount(Items, OutEntities[k].type, OutEntities[k].id)

\* The citation sum of a topic over the input: a classified paper of the
\* topic counts its cited_by_count, or 0 when it has none.
RECURSIVE CitedSum(_, _, _)
CitedSum(items, topic_id, k) ==
    IF k > Len(items) THEN 0
    ELSE (IF Classified(items[k]) /\ items[k].primary_topic.id.s = topic_id
             /\ items[k].cited_by_count.tag = "int"
          THEN items[k].cited_by_count.n ELSE 0)
         + CitedSum(items, topic_id, k + 1)

\* C5: for every topic of topics_with_papers, avg_citations times
\* paper_count is the sum of cited_by_count over the topic's papers (a
\* missing count is 0), and the divisor is never zero.
C5_AverageIsMean ==
    (Done /\ result.status = "ok")
    => \A k \in 1..Len(TopicAnalysis.topics_with_papers) :
           LET e == TopicAnalysis.topics_with_papers[k] IN
           /\ e.avg_citations.den # 0
           /\ e.paper_count # 0
           /\ e.avg_citations.num * e.paper_count
                  = CitedSum(Items, e.topic_id, 1) * e.avg_citations.den

C5_Witness ==
    /\ pc = "analyzed" /\ result.status = "ok"
    /\ \E k \in 1..Len(TopicAnalysis.topics_with_papers) :
           LET e == TopicAnalysis.topics_with_papers[k] IN
           /\ e.paper_count = 2
           /\ e.avg_citations = [num |-> 7, den |-> 2]
           /\ \E i \in 1..Len(Items) :
                  Classified(Items[i]) /\ Items[i].cited_by_count.tag = "absent"

\* The name the first paper gives an id, at the level of an entity type.
FirstName(items, type, id) ==
    LET has(p) == /\ Classified(p)
                  /\ IF type = "topic" THEN p.primary_topic.id.s = id
                     ELSE /\ LevelOf(p.primary_topic, type).tag = "map"
                          /\ LevelOf(p.primary_topic, type).id = Str(id)
                          /\ Truthy(LevelOf(p.primary_topic, type).display_name)
        k == CHOOSE i \in 1..Len(items) : has(items[i]) /\ \A j \in 1..(i - 1) : ~has(items[j])
    IN IF type = "topic" THEN items[k].primary_topic.display_name
       ELSE LevelOf(items[k].primary_topic, type).display_name

\* C6: no two entities of the taxonomy have the same id, and an entity's
\* name is the one of the first paper in which its id occurred.
C6_OneEntityPerId ==
    (Done /\ result.status = "ok")
    => /\ \A i, j \in 1..Len(OutEntities) : i # j => OutEntities[i].id # OutEntities[j].id
       /\ \A k \in 2..Len(OutEntities) :
              OutEntities[k].name = FirstName(Items, OutEntities[k].type, OutEntities[k].id)

\* C7: two separate runs on the same professor record and the same
\* relationship list give identical output, entity and relation order
\* included.
C7_RunsAgree ==
    pc = "rerun" => result2 = result

\* The (source, target) pairs of a list of edges or relationships.
EdgePairs(edges) == [k \in 1..Len(edges) |-> <<edges[k].source, edges[k].target>>]
RelPairs(rels) == [k \in 1..Len(rels) |-> <<rels[k].parent_id.s, rels[k].child_id.s>>]
EntityIds == {OutEntities[k].id : k \in 1..Len(OutEntities)}

\* C8: with a readable relationship list, the hierarchy edges are exactly
\* the supplied relationships whose parent_id and child_id are both ids of
\* output entities, in the order supplied.
C8_HierarchyEdgesFiltered ==
    (Done /\ result.status = "ok" /\ relFile.tag = "list")
    => EdgePairs(SubSeq(OutRelations, TopicAnalysis.total_topics + 1, Len(OutRelations)))
       = RelPairs(SelectSeq(relFile.rels,
                            LAMBDA r : /\ r.parent_id.tag = "str" /\ r.child_id.tag = "str"
                                       /\ r.parent_id.s \in EntityIds
                                       /\ r.child_id.s \in EntityIds))

C8_Witness ==
    /\ pc = "analyzed" /\ result.status = "ok" /\ relFile = RelList(<<R3, R2>>)
    /\ Len(OutRelations) = 2
    /\ OutRelations[2].source = S1 /\ OutRelations[2].target = T1
    /\ OutRelations[2].type = RelType("hierarchical")

\* C9: a relationship file that is missing, unreadable or not JSON never
\* fails the call: the result is the one obtained with no relationship file,
\* and its relations are works_on edges only.
C9_RelationshipFileFailsSoft ==
    (Done /\ relFile.tag \in {"missing", "unreadable", "badjson"})
    => /\ result = analyze_professor_topics(data, RelOther("none"), seed)
       /\ \A k \in 1..Len(OutRelations) : OutRelations[k].type = RelType("works_on")

C9_Witness ==
    /\ pc = "analyzed" /\ relFile.tag = "badjson"
    /\ result.status = "ok" /\ Len(OutRelations) = 2

\* The files of the batch that are not JSON.
InvalidCount == Cardinality({k \in 1..Len(professor_files) : professor_files[k].tag = "badjson"})
AllParseOrNot == \A k \in 1..Len(professor_files) : professor_files[k].tag \in {"badjson", "nonobject", "map"}

\* C10: a batch over N *_detail.json files, M of them invalid JSON and the
\* others valid JSON, reports M failures and N-M successes and leaves N-M
\* distinct output files.
C10_BatchCounts ==
    (bpc = "done" /\ AllParseOrNot)
    => /\ failed = InvalidCount
       /\ successful = Len(professor_files) - InvalidCount
       /\ Cardinality(outFiles) = Len(professor_files) - InvalidCount

\* The *_detail.json entries of the folder.
FilesFound == Cardinality({k \in 1..Len(folder.entries) : folder.entries[k].detail})

\* C11: in batch mode every *_detail.json file is attempted exactly once
\* whatever happened to the earlier files, each attempt increments exactly
\* one of successful and failed, and at the end successful + failed is the
\* number of files found.
C11_EveryFileCountedOnce ==
    /\ bpc \in {"loop", "done"} =>
          /\ Len(professor_files) = FilesFound
          /\ pos \in 1..(Len(professor_files) + 1)
          /\ successful + failed = pos - 1
    /\ bpc = "done" =>
          /\ pos = Len(professor_files) + 1
          /\ successful + failed = FilesFound

C11_Witness ==
    /\ bpc = "done" /\ Len(professor_files) = 2
    /\ professor_files[1] = B2 /\ professor_files[2] = B3
    /\ failed = 1 /\ successful = 1

\* C12: the output file name derived for a professor contains no '/', no
\* '\' and no space, for every professor name and every author_id.
C12_SafeFileName ==
    \A k \in 1..Len(output_file) : output_file[k] \notin {"/", "\\", " "}

\* ------------------------------------------- properties of the extraction

Returned == epc \in {"returned", "saved", "exit"}
Row(k) == SplitLine(table[k])
FullRows == {k \in 1..Len(table) : Len(Row(k)) >= 11}
NamesTarget(k, col) == Col(Row(k), col) = target_node
MatchesAny(k) == NamesTarget(k, 7) \/ NamesTarget(k, 5) \/ NamesTarget(k, 3)
DomainRows == {k \in FullRows : NamesTarget(k, 7)}
EntitiesOfType(t) == {i \in 1..Len(entities) : entities[i].type = t}
RelsOfType(t) == {i \in 1..Len(relationships) : relationships[i].relationship_type = t}

OneOfEach ==
    /\ \A t \in {"domain", "field", "subfield", "topic"} : Cardinality(EntitiesOfType(t)) = 1
    /\ Len(entities) = 4
    /\ \A t \in {"domain_to_field", "field_to_subfield", "subfield_to_topic"} :
          Cardinality(RelsOfType(t)) = 1
    /\ Len(relationships) = 3

C14_NotFoundWritesNothing ==
    (\A k \in FullRows : ~MatchesAny(k)) =>
        /\ entities = <<>> /\ relationships = <<>>
        /\ written = {}
        /\ epc \in {"start", "returned", "exit"}
        /\ epc # "start" => target_level = "none"

C14_Witness ==
    /\ epc = "exit" /\ target_node = CS /\ table = <<Line5, Line6>>
    /\ written = {}

\* C15: the level is the one matched in the first row, in file order, in
\* which the target equals the domain, field or subfield name, the domain
\* being looked at before the field and the field before the subfield; rows
\* after it do not change the level.
C15_FirstMatchDecidesLevel ==
    epc # "start" =>
        /\ (\A k \in FullRows : ~MatchesAny(k)) => target_level = "none"
        /\ \A k \in FullRows :
              (MatchesAny(k) /\ \A j \in FullRows : j < k => ~MatchesAny(j)) =>
                  target_level = IF NamesTarget(k, 7) THEN "domain"
                                 ELSE IF NamesTarget(k, 5) THEN "field"
                                 ELSE "subfield"

C15_Witness ==
    /\ Returned /\ target_node = CS /\ table = <<Line9, Line4, Line3>>
    /\ target_level = "domain"

LevelColumn == [domain |-> 7, field |-> 5, subfield |-> 3]
Qualifying ==
    IF target_level = "none" THEN {}
    ELSE {k \in FullRows : NamesTarget(k, LevelColumn[target_level])}

HasEdge(type, parent_id, child_id) ==
    \E i \in RelsOfType(type) :
        relationships[i].parent_id = parent_id /\ relationships[i].child_id = child_id

\* C17: for every qualifying row the output holds an edge for each pair of
\* consecutive emitted levels of that row, with the row's own parent and
\* child ids: subfield -> topic always, field -> subfield when the level is
\* domain or field, domain -> field when the level is domain.
C17_EveryRowHasItsEdges ==
    Returned =>
        \A k \in Qualifying :
            /\ HasEdge("subfield_to_topic", subfield_openalex_id(Row(k)),
                       topic_openalex_id(Row(k)))
            /\ target_level \in {"domain", "field"} =>
                  HasEdge("field_to_subfield", field_openalex_id(Row(k)),
                          subfield_openalex_id(Row(k)))
            /\ target_level = "domain" =>
                  HasEdge("domain_to_field", domain_openalex_id(Row(k)),
                          field_openalex_id(Row(k)))

EdgeCount(type, parent_id, child_id) ==
    Cardinality({i \in RelsOfType(type) :
        relationships[i].parent_id = parent_id /\ relationships[i].child_id = child_id})
TopicPairRows(k) ==
    {j \in Qualifying : /\ subfield_openalex_id(Row(j)) = subfield_openalex_id(Row(k))
                        /\ topic_openalex_id(Row(j)) = topic_openalex_id(Row(k))}
SubfieldPairRows(k) ==
    {j \in Qualifying : /\ field_openalex_id(Row(j)) = field_openalex_id(Row(k))
                        /\ subfield_openalex_id(Row(j)) = subfield_openalex_id(Row(k))}
FieldPairRows(k) ==
    {j \in Qualifying : /\ domain_openalex_id(Row(j)) = domain_openalex_id(Row(k))
                        /\ field_openalex_id(Row(j)) = field_openalex_id(Row(k))}

FirstWithSubfield(k) ==
    CHOOSE j \in Qualifying :
        /\ subfield_openalex_id(Row(j)) = subfield_openalex_id(Row(k))
        /\ \A h \in Qualifying :
              subfield_openalex_id(Row(h)) = subfield_openalex_id(Row(k)) => j <= h
FirstWithField(k) ==
    CHOOSE j \in Qualifying :
        /\ field_openalex_id(Row(j)) = field_openalex_id(Row(k))
        /\ \A h \in Qualifying :
              field_openalex_id(Row(h)) = field_openalex_id(Row(k)) => j <= h

LevelId(row, type) ==
    IF type = "domain" THEN domain_openalex_id(row)
    ELSE IF type = "field" THEN field_openalex_id(row)
    ELSE subfield_openalex_id(row)
LevelIdColumn == [domain |-> 6, field |-> 4, subfield |-> 2]
\* The qualifying rows read so far that carry the id at the level.
Carriers(type, id) ==
    {k \in Qualifying : k < line_num /\ LevelId(Row(k), type) = id}

\* C19: at most one domain, field or subfield entity is emitted per
\* synthesized id; its name and original_id are those of the first
\* qualifying row, in file order, that carries the id.
C19_FirstRowNamesEntity ==
    \A i \in 1..Len(entities) :
        entities[i].type # "topic" =>
            /\ \A j \in 1..Len(entities) : entities[j].id = entities[i].id => j = i
            /\ Carriers(entities[i].type, entities[i].id) # {}
            /\ \A k \in Carriers(entities[i].type, entities[i].id) :
                  (\A h \in Carriers(entities[i].type, entities[i].id) : k <= h) =>
                      /\ entities[i].name = Col(Row(k), LevelColumn[entities[i].type])
                      /\ entities[i].original_id =
                            Col(Row(k), LevelIdColumn[entities[i].type])

C19_Witness ==
    /\ Returned /\ target_node = CS /\ table = <<Line1, Line8>>
    /\ Cardinality(EntitiesOfType("subfield")) = 1
    /\ \E i \in EntitiesOfType("subfield") : entities[i].name = <<"s", "1">>

Rank ==
    [domain |-> 1, field |-> 2, subfield |-> 3, topic |-> 4,
     domain_to_field |-> 1, field_to_subfield |-> 2, subfield_to_topic |-> 3]
IsPrefix(a, b) == Len(a) <= Len(b) /\ SubSeq(b, 1, Len(a)) = a

\* C20: both lists follow the order of the rows. Every step appends to the
\* lists without touching what they hold; the records it appends come from
\* the row it reads, in the order domain, field, subfield, topic, and the
\* rows are read in file order.
C20_ListsFollowRowOrder ==
    [][/\ IsPrefix(entities, entities') /\ IsPrefix(relationships, relationships')
       /\ (entities' # entities \/ relationships' # relationships) =>
             /\ epc = "second" /\ line_num' = line_num + 1
             /\ \A i \in (Len(entities) + 1)..Len(entities') :
                   /\ entities'[i] \in {domain_entity(Row(line_num)), field_entity(Row(line_num)),
                                        subfield_entity(Row(line_num)), topic_entity(Row(line_num))}
                   /\ \A j \in (Len(entities) + 1)..Len(entities') :
                         i < j => Rank[entities'[i].type] < Rank[entities'[j].type]
             /\ \A i \in (Len(relationships) + 1)..Len(relationships') :
                   /\ relationships'[i] \in
                         {domain_to_field(Row(line_num)), field_to_subfield(Row(line_num)),
                          subfield_to_topic(Row(line_num))}
                   /\ \A j \in (Len(relationships) + 1)..Len(relationships') :
                         i < j => Rank[relationships'[i].relationship_type]
                                  < Rank[relationships'[j].relationship_type]
      ]_vars

C20_Witness ==
    /\ Returned /\ target_node = CS /\ table = <<Line1, Line2>>
    /\ Len(entities) = 6 /\ Len(relationships) = 5
    /\ entities[4] = topic_entity(Line1) /\ entities[5] = field_entity(Line2)

\* The lines with at least 11 tab-separated fields, as written in the file,
\* that name the target in the column of the determined level.
RawMatching ==
    IF target_level = "none" THEN {}
    ELSE {k \in 1..Len(table) :
            Len(table[k]) >= 11 /\ Col(table[k], LevelColumn[target_level]) = target_node}

\* C21: a row of fewer than 11 tab-separated fields contributes no entity
\* and no relationship and is ignored when the level is located, the rows
\* after it are still processed, and every row of 11 fields that matches the
\* target at the determined level is processed: the topic entities are, one
\* for one, those of the matching rows of 11 fields.
C21_ShortRowsSkippedOthersProcessed ==
    /\ epc # "start" =>
          target_level = FirstPass(SelectSeq(table, LAMBDA l : Len(l) >= 11), 1, target_node)
    /\ Returned =>
          /\ \A k \in RawMatching : \E i \in EntitiesOfType("topic") :
                /\ entities[i].original_id = Col(table[k], 0)
                /\ entities[i].link = Col(table[k], 10)
          /\ Cardinality(EntitiesOfType("topic")) = Cardinality(RawMatching)

\* -------------------------------- further properties of the aggregator

RECURSIVE PaperCountSum(_, _)
PaperCountSum(entries, k) ==
    IF k > Len(entries) THEN 0 ELSE entries[k].paper_count + PaperCountSum(entries, k + 1)

\* The summaries of the classified papers of one topic id, in input order.
ClassifiedOf(items, topic_id) ==
    LET of == SelectSeq(items, LAMBDA p : Classified(p) /\ p.primary_topic.id.s = topic_id)
    IN [k \in 1..Len(of) |-> [id |-> Get(of[k].id),
                             cited_by_count |-> IF of[k].cited_by_count.tag = "absent"
                                                THEN Count(0) ELSE of[k].cited_by_count]]

\* C22: a paper enters exactly one bucket, the one keyed by its
\* primary_topic.id, if and only if it is a mapping whose primary_topic is a
\* non-empty mapping with a truthy id and a truthy display_name; the
\* paper_count values add up to the number of such papers, which is at most
\* total_papers_analyzed, and each paper_count is the length of the papers
\* list, which keeps input order.
C22_ClassifiedPapersBucketed ==
    (Done /\ result.status = "ok")
    => LET twp == TopicAnalysis.topics_with_papers IN
       /\ \A i, j \in 1..Len(twp) : twp[i].topic_id = twp[j].topic_id => i = j
       /\ \A k \in 1..Len(twp) :
             /\ twp[k].papers = ClassifiedOf(Items, twp[k].topic_id)
             /\ twp[k].paper_count = Len(twp[k].papers)
       /\ \A i \in 1..Len(Items) :
             Classified(Items[i]) =>
                 \E k \in 1..Len(twp) : twp[k].topic_id = Items[i].primary_topic.id.s
       /\ PaperCountSum(twp, 1) = Cardinality({i \in 1..Len(Items) : Classified(Items[i])})
       /\ PaperCountSum(twp, 1) <= TopicAnalysis.total_papers_analyzed

C22_Witness ==
    /\ pc = "analyzed" /\ result.status = "ok"
    /\ Items = <<P1, P2>>
    /\ Len(TopicAnalysis.topics_with_papers) = 1
    /\ TopicAnalysis.topics_with_papers[1].paper_count = 2
    /\ TopicAnalysis.topics_with_papers[1].papers[1].id = P1.id

WorksOnEdges == SelectSeq(OutRelations, LAMBDA r : r.type = RelType("works_on"))
TopicKeys == {TopicAnalysis.topics_with_papers[k].topic_id :
                 k \in 1..Len(TopicAnalysis.topics_with_papers)}

WorksOnAsClaimed ==
    /\ {WorksOnEdges[k].target : k \in 1..Len(WorksOnEdges)} = TopicKeys
    /\ \A i, j \in 1..Len(WorksOnEdges) :
          WorksOnEdges[i].target = WorksOnEdges[j].target => i = j
    /\ \A k \in 1..Len(WorksOnEdges) :
          /\ WorksOnEdges[k].paper_count >= 1
          /\ WorksOnEdges[k].source = OutEntities[1].id
    /\ OutEntities[1].type = "professor"
    /\ OutEntities[1].id
           = <<"p", "r", "o", "f", "e", "s", "s", "o", "r", "_">>
             \o (IF data.professor_info.author_id.tag = "str"
                 THEN data.professor_info.author_id.s
                 ELSE IF data.professor_info.author_id.tag = "null"
                 THEN <<"N", "o", "n", "e">> ELSE <<>>)
    /\ \A k \in 2..Len(OutEntities) : OutEntities[k].type # "professor"
    /\ TopicAnalysis.total_topics = Cardinality(TopicKeys)
    /\ TopicAnalysis.total_topics = Len(TopicAnalysis.topics_with_papers)

\* C23 as stated: in every result the works_on targets are the keys of
\* topics_with_papers, one edge per key, each with paper_count >= 1 and with
\* the one professor entity, the first of the entity list, whose id is
\* professor_<author_id>, as source; total_topics is the number of keys.
C23_WorksOnMatchesTopics ==
    (Done /\ result.status = "ok") => WorksOnAsClaimed

\* C23, amended: the same, for every result computed without a supplied
\* relationship record whose relationship_type is works_on.
C23_GeneratedWorksOnMatchesTopics ==
    (/\ Done /\ result.status = "ok"
     /\ relFile.tag = "list" =>
           \A k \in 1..Len(relFile.rels) : relFile.rels[k].relationship_type # RelType("works_on"))
    => WorksOnAsClaimed

C23_Witness ==
    /\ pc = "analyzed" /\ result.status = "ok"
    /\ Items = <<P3, P1>>
    /\ TopicAnalysis.total_topics = 2
    /\ Len(WorksOnEdges) = 2
    /\ WorksOnEdges[1].target = T2 /\ WorksOnEdges[2].target = T1

\* The papers the re-scan can take the representative primary_topic from:
\* mappings whose primary_topic is a non-empty mapping with the topic id.
CarriesTopic(paper, topic_id) ==
    /\ paper.tag = "map"
    /\ paper.primary_topic.tag = "map" /\ paper.primary_topic # PTEmpty
    /\ paper.primary_topic.id = Str(topic_id)

\* C24 as stated: for every topic of topics_with_papers,
\* topic_info.display_name is not null and is the display_name of a paper
\* accumulated into the topic's bucket.
C24_NameFromAccumulatedPaper ==
    (Done /\ result.status = "ok")
    => \A k \in 1..Len(TopicAnalysis.topics_with_papers) :
           LET e == TopicAnalysis.topics_with_papers[k] IN
           /\ e.topic_info.display_name.tag = "str"
           /\ \E i \in 1..Len(Items) :
                  /\ Classified(Items[i])
                  /\ Items[i].primary_topic.id.s = e.topic_id
                  /\ Items[i].primary_topic.display_name = e.topic_info.display_name

\* C24, amended: topic_info.display_name is the display_name, null when the
\* key is missing or null, of the first paper in input order that carries a
\* non-empty primary_topic mapping with the topic id, accumulated or not; it
\* is the name of an accumulated paper when that first paper has a truthy
\* display_name.
C24_NameFromFirstCarrier ==
    (Done /\ result.status = "ok")
    => \A k \in 1..Len(TopicAnalysis.topics_with_papers) :
           LET e == TopicAnalysis.topics_with_papers[k] IN
           \E i \in 1..Len(Items) :
               /\ CarriesTopic(Items[i], e.topic_id)
               /\ \A j \in 1..(i - 1) : ~CarriesTopic(Items[j], e.topic_id)
               /\ e.topic_info.display_name
                      = (IF Items[i].primary_topic.display_name.tag = "absent"
                         THEN Null ELSE Items[i].primary_topic.display_name)
               /\ Classified(Items[i]) =>
                      e.topic_info.display_name = Items[i].primary_topic.display_name

C24_Witness ==
    /\ pc = "analyzed" /\ result.status = "ok"
    /\ Items = <<P4, P1>>
    /\ Len(TopicAnalysis.topics_with_papers) = 1
    /\ TopicAnalysis.topics_with_papers[1].topic_info.display_name = Null
    /\ TopicAnalysis.topics_with_papers[1].paper_count = 1

ExtractedIds == {entities[i].id : i \in 1..Len(entities)}

\* C25: both ends of every relationship are ids of entities of the same
\* output, and every entity that is not of the target level is the child of
\* at least one relationship.
C25_NoDanglingEdge ==
    /\ \A i \in 1..Len(relationships) :
          /\ relationships[i].parent_id \in ExtractedIds
          /\ relationships[i].child_id \in ExtractedIds
    /\ \A i \in 1..Len(entities) :
          entities[i].type # target_level =>
              \E j \in 1..Len(relationships) : relationships[j].child_id = entities[i].id

C25_Witness ==
    /\ Returned /\ target_node = CS /\ table = <<Line4, Line9, Line1>>
    /\ target_level = "field"
    /\ Len(entities) = 6 /\ Len(relationships) = 4

\* ------------------------------------------- properties of the fetchers

RequestsFor(p) == Cardinality({i \in 1..Len(requests_log) : requests_log[i].page = p})
FailuresFor(p) ==
    Cardinality({i \in 1..Len(requests_log) :
        requests_log[i].page = p /\ requests_log[i].kind = "fail"})
PagesAsked == {requests_log[i].page : i \in 1..Len(requests_log)}
\* Every request so far failed with a RequestException or returned a page.
NoGarbled == \A i \in 1..Len(requests_log) : requests_log[i].kind # "garbled"

RetriesAsClaimed ==
    /\ \A p \in PagesAsked : RequestsFor(p) <= max_retries
    /\ NoGarbled =>
          \* a success ends the requests for its page, whose papers are kept
          /\ \A i \in 1..Len(requests_log) :
                requests_log[i].kind = "page" =>
                    \A j \in (i + 1)..Len(requests_log) :
                        requests_log[j].page > requests_log[i].page
          /\ \A i \in 1..Len(all_papers) :
                \E j \in 1..Len(requests_log) :
                    requests_log[j].page = all_papers[i] /\ requests_log[j].kind = "page"
          \* max_retries failures end the call with the papers of the earlier pages
          /\ \A p \in PagesAsked :
                FailuresFor(p) = max_retries =>
                    /\ fpc = "returned"
                    /\ \A q \in PagesAsked : q <= p
                    /\ \A i \in 1..Len(all_papers) : all_papers[i] < p
          /\ fpc = "request" => page \notin {p \in PagesAsked : FailuresFor(p) = max_retries}

\* C26 as stated: at most max_retries requests are issued for one page, a
\* success on any attempt continues with the page's results, and when all
\* max_retries attempts of a page fail the papers of the earlier pages are
\* returned, no exception is raised and no later page is requested.
C26_RetriesThenReturns ==
    /\ RetriesAsClaimed
    /\ NoGarbled => fpc # "raised"

\* A pass of the while loop that is over and did not end the call.
PassContinued(k) == k < iterations \/ (k = iterations /\ fpc = "loop")

TopicLoopAsClaimed ==
    /\ Len(all_papers) <= max_papers
    /\ iterations <= max_papers
    /\ \A k \in 1..iterations :
          PassContinued(k) => \E i \in 1..Len(all_papers) : all_papers[i] = k

\* C27: fetch_papers_for_topic eventually returns whenever every request
\* fails or returns a page; a pass of the loop that does not return adds at
\* least one paper, there are at most max_papers passes, and the list never
\* holds more than max_papers papers.
C27_TopicFetchReturns ==
    /\ []TopicLoopAsClaimed
    /\ <>(fpc = "returned" \/ ~NoGarbled)

\* --------------------------------------------- properties of the downloader

\* C30: the tasks submitted to the pool have pairwise distinct openalex_id,
\* when all files are processed and in single-professor mode, so that no two
\* of them use the same .tmp or final path.
C30_TasksHaveDistinctIds ==
    dpc # "start" =>
        \A i \in 1..Len(tasks) : \A j \in 1..Len(tasks) : i # j => tasks[i] # tasks[j]

\* C29: once every submitted task has completed, downloaded + failed +
\* skipped is the number of tasks submitted, whatever the interleaving.
C29_CountersAddUp ==
    dpc = "done" => stats.downloaded + stats.failed + stats.skipped = Len(tasks)

\* C28: a file is at the final path only if its content passed
\* verify_file_integrity; a temp file that fails it is removed, creates no
\* final file and its call is counted as failed.
C28_OnlyVerifiedContentAtFinalPath ==
    /\ dpc = "done" =>
          \A t \in 1..Len(tasks) :
              /\ final_files[tasks[t]] # "none" => verify_file_integrity(final_files[tasks[t]])
              /\ worker[t].counter = "downloaded" => final_files[tasks[t]] # "none"
    /\ \A t \in 1..Len(tasks) :
          (worker[t].verified = "invalid" /\ worker[t].pc \in {"read", "store", "done"}) =>
              worker[t].counter = "failed"

====
